---- MODULE Spec2Model ----
(***************************************************************************)
(* State-machine model of the network simulation engine:                   *)
(*   core/network.py, core/connection.py, core/neuron.py, core/config.py,  *)
(*   learning/hebbian.py, utils/neurogenesis.py, utils/backprop.py.        *)
(*                                                                         *)
(* Representation                                                          *)
(*   - A neuron name is a sequence of tokens; the token "_" is the         *)
(*     underscore character and every other token is an underscore-free    *)
(*     piece of text, so "novel_0" is <<"novel", "_", "0">>.  String       *)
(*     concatenation is \o and str.split("_") is Split.                    *)
(*   - Floats are fixed point: weights and learning rates in units of      *)
(*     1/WUnit, activations in units of 1/VUnit, neurogenesis counters in  *)
(*     units of 1/CUnit.  Divisions truncate at that resolution.           *)
(*   - time.time() is the variable now; Tick advances it.                  *)
(*   - random.* is a nondeterministic choice from a small set.             *)
(*   - A state value is a tagged record: k is the Python type ("num",      *)
(*     "bool", "str"), n the number (or 0/1 for a bool), s the text.       *)
(***************************************************************************)
EXTENDS Integers, Sequences, FiniteSets, TLC

VARIABLES
    neurons,              \* Network.neurons: name -> [position, type]
    connections,          \* Network.connections: <<source, target>> -> [weight, bidirectional]
    state,                \* Network.state: name -> tagged value
    update_count,         \* Network.update_count
    excluded_neurons,     \* Network.excluded_neurons
    config,               \* Network.config: [hebbian, neurogenesis, combined]
    learning,             \* Network.learning: <<>> (None) or <<HebbianLearning>>
    neurogenesis,         \* Network.neurogenesis: <<>> (None) or <<Neurogenesis>>
    layers,               \* BackpropNetwork.layers
    prev_weight_changes,  \* BackpropNetwork.prev_weight_changes
    now,                  \* the wall clock read by time.time()
    file,                 \* the snapshot file: <<>> (absent) or <<data>>
    lone_connection,      \* a Connection held by the caller: <<>> or <<Connection>>
    lone_neuron,          \* a Neuron held by the caller: <<>> or <<Neuron>>
    last,                 \* the last call: its name, whether it raised, what it returned
    hist                  \* bookkeeping: the calls and clock advances made so far, and for
                          \* the last two perform_hebbian_learning calls on the present
                          \* helper when each was made and whether it was debounced

vars == <<neurons, connections, state, update_count, excluded_neurons, config,
          learning, neurogenesis, layers, prev_weight_changes, now, file, lone_connection,
          lone_neuron,
          last, hist>>

netVars == <<neurons, connections, state, update_count, excluded_neurons, config>>
helperVars == <<learning, neurogenesis>>
bpVars == <<layers, prev_weight_changes>>

----------------------------------------------------------------------------
(* Fixed-point units *)

WUnit == 10000            \* weight 1.0
VUnit == 10               \* activation 1.0
CUnit == 1000             \* counter 1.0

(* Bounds of the model *)
MaxCalls == 5             \* engine calls explored in one run
MaxTicks == 2             \* clock advances explored in one run

----------------------------------------------------------------------------
(* Names *)

Sep == "_"
A == <<"A">>
B == <<"B">>
Ghost == <<"ghost">>
Novel0 == <<"novel", Sep, "0">>

Digits == <<"0", "1", "2", "3", "4", "5", "6", "7", "8", "9">>

RECURSIVE NumStr(_)
\* str(n) for n >= 0, one token per digit
NumStr(n) == IF n < 10 THEN <<Digits[n + 1]>>
             ELSE NumStr(n \div 10) \o <<Digits[(n % 10) + 1]>>

HasUnderscore(name) == \E i \in 1..Len(name) : name[i] = Sep

RECURSIVE SplitFrom(_, _, _)
\* key.split("_"): cur is the part being read, i the next position
SplitFrom(key, i, cur) ==
    IF i > Len(key) THEN <<cur>>
    ELSE IF key[i] = Sep THEN <<cur>> \o SplitFrom(key, i + 1, <<>>)
    ELSE SplitFrom(key, i + 1, Append(cur, key[i]))

Split(key) == SplitFrom(key, 1, <<>>)

\* a faulty key: f"{tgt}_{src}"
JoinKeyReversed(src, tgt) == tgt \o <<Sep>> \o src

\* f"{src}_{tgt}"
JoinKey(src, tgt) == src \o <<Sep>> \o tgt

----------------------------------------------------------------------------
(* State values *)

Num(x) == [k |-> "num", n |-> x, s |-> ""]
Bool(b) == [k |-> "bool", n |-> IF b THEN 1 ELSE 0, s |-> ""]
Str(t) == [k |-> "str", n |-> 0, s |-> t]

\* isinstance(value, (int, float)): bool is a subclass of int
IsIntOrFloat(value) == value.k \in {"num", "bool"}
IsBool(value) == value.k = "bool"
IsStr(value) == value.k = "str"

\* float(value) of an int, float or bool
ToFloat(value) == IF value.k = "bool" THEN value.n * VUnit ELSE value.n

GetNeuronValueOf(st, neuron_name) ==
    LET value == IF neuron_name \in DOMAIN st THEN st[neuron_name] ELSE Num(0)
    IN  IF IsIntOrFloat(value) THEN ToFloat(value)
        ELSE IF IsBool(value) THEN (IF value.n = 1 THEN 100 * VUnit ELSE 0)
        ELSE IF IsStr(value) THEN 75 * VUnit
        ELSE 0

get_neuron_value(neuron_name) == GetNeuronValueOf(state, neuron_name)

----------------------------------------------------------------------------
(* Connection *)

Max(a, b) == IF a >= b THEN a ELSE b
Min(a, b) == IF a <= b THEN a ELSE b

\* a faulty set_weight: the weight is stored as given
ClampWeightNone(weight) == weight

\* Connection.set_weight: max(-1.0, min(1.0, weight))
ClampWeight(weight) == Max(-WUnit, Min(WUnit, weight))

\* the capacity of Connection.weight_history
HistoryCap == 100

\* a faulty truncation: the newest entries are the ones dropped
KeepFirst(history, n) == IF Len(history) > n THEN SubSeq(history, 1, n) ELSE history

\* "if len(h) > n: h = h[-n:]"
KeepLast(history, n) ==
    IF Len(history) > n THEN SubSeq(history, Len(history) - n + 1, Len(history)) ELSE history

\* connection.set_weight(weight): the entries of weight_history are written
\* without their timestamps
SetWeight(conn, weight) ==
    [conn EXCEPT !.weight = ClampWeight(weight),
                 !.weight_history = KeepLast(Append(@, ClampWeight(weight)), HistoryCap)]

\* Connection(source, target, weight, bidirectional)
NewConnection(weight, bidirectional) ==
    SetWeight([weight |-> 0, bidirectional |-> bidirectional, weight_history |-> <<>>], weight)

----------------------------------------------------------------------------
(* Config *)

DefaultConfig ==
    [hebbian |-> [base_learning_rate |-> WUnit \div 10,
                  weight_decay |-> WUnit \div 100,
                  learning_interval |-> 30000,
                  active_threshold |-> 50 * VUnit],
     neurogenesis |-> [novelty_threshold |-> 3 * CUnit,
                       stress_threshold |-> (7 * CUnit) \div 10,
                       reward_threshold |-> (6 * CUnit) \div 10,
                       cooldown |-> 300,
                       decay_rate |-> 95,
                       new_neuron_connection_strength |-> (3 * WUnit) \div 10],
     combined |-> [neurogenesis_learning_boost |-> 15]]

\* a Config whose caller changed a hebbian and a neurogenesis entry
CustomConfig ==
    [DefaultConfig EXCEPT !.hebbian.learning_interval = 1000,
                          !.neurogenesis.reward_threshold = (5 * CUnit) \div 10]

----------------------------------------------------------------------------
(* Finite maps (Python dicts) *)

Put(f, key, v) == [x \in (DOMAIN f) \cup {key} |-> IF x = key THEN v ELSE f[x]]

----------------------------------------------------------------------------
(* Neuron *)

\* a position is None, a tuple or (read back from JSON) a list of coordinates
NoPosition == [seq |-> "none", xy |-> <<>>]
Tuple(xy) == [seq |-> "tuple", xy |-> xy]
List(xy) == [seq |-> "list", xy |-> xy]

\* Neuron.__init__: position or (0, 0)
NewNeuron(position, neuron_type) ==
    [position |-> IF position = NoPosition THEN Tuple(<<0, 0>>) ELSE position,
     type |-> neuron_type,
     activity_history |-> <<>>]

\* Neuron.record_activity(value, max_history)
RecordActivity(neuron, value, max_history) ==
    LET appended == Append(neuron.activity_history, value)
    IN  [neuron EXCEPT !.activity_history =
            IF Len(appended) > max_history THEN Tail(appended) ELSE appended]

DefaultMaxHistory == 10

----------------------------------------------------------------------------
(* Network.add_neuron and Network.connect on a network value                *)
(* net = [neurons, connections, state]; the result says whether the call    *)
(* raised and gives the network it leaves behind.                           *)

Net == [neurons |-> neurons, connections |-> connections, state |-> state]

\* a faulty add_neuron: a duplicate name is accepted
AddNeuronRaisesNever(ns, name) == FALSE

\* the check that makes add_neuron raise ValueError
AddNeuronRaises(ns, name) == name \in DOMAIN ns

NetAddNeuron(net, name, initial_state, position, neuron_type) ==
    IF AddNeuronRaises(net.neurons, name)
    THEN [raised |-> TRUE, net |-> net]
    ELSE [raised |-> FALSE,
          net |-> [net EXCEPT !.neurons = Put(@, name, NewNeuron(position, neuron_type)),
                              !.state = Put(@, name, initial_state)]]

\* a faulty connect: only the source is checked
ConnectRaisesSourceOnly(ns, source, target) == source \notin DOMAIN ns

\* the checks that make connect raise ValueError
ConnectRaises(ns, source, target) ==
    source \notin DOMAIN ns \/ target \notin DOMAIN ns

\* a faulty connect: the reverse connection is written even when it exists
NetConnectSync(net, source, target, weight, bidirectional) ==
    IF ConnectRaises(net.neurons, source, target)
    THEN [raised |-> TRUE, net |-> net]
    ELSE LET c1 == Put(net.connections, <<source, target>>,
                       NewConnection(weight, bidirectional))
             c2 == IF bidirectional
                   THEN Put(c1, <<target, source>>, NewConnection(weight, TRUE))
                   ELSE c1
         IN  [raised |-> FALSE, net |-> [net EXCEPT !.connections = c2]]

NetConnect(net, source, target, weight, bidirectional) ==
    IF ConnectRaises(net.neurons, source, target)
    THEN [raised |-> TRUE, net |-> net]
    ELSE LET c1 == Put(net.connections, <<source, target>>,
                       NewConnection(weight, bidirectional))
             c2 == IF bidirectional /\ <<target, source>> \notin DOMAIN c1
                   THEN Put(c1, <<target, source>>, NewConnection(weight, TRUE))
                   ELSE c1
         IN  [raised |-> FALSE, net |-> [net EXCEPT !.connections = c2]]

----------------------------------------------------------------------------
(* Results of calls *)

\* the last call: its name, whether it raised, the pairs perform_learning
\* returned, the boolean check_neurogenesis, save or load returned (load
\* returning a network is TRUE, None is FALSE)
Result(op, raised) == [op |-> op, raised |-> raised, pairs |-> {}, flag |-> FALSE]

----------------------------------------------------------------------------
(* Network.initialize_learning: HebbianLearning.__init__, Neurogenesis.__init__ *)

MinInterval == 5

\* a faulty constructor: the debounce timer is not started
NewHebbianUnstarted(cfg, t) ==
    [last_learning_time |-> t - MinInterval,
     excluded_neurons |-> {},
     learning_rate |-> cfg.hebbian.base_learning_rate]

NewHebbian(cfg, t) ==
    [last_learning_time |-> t,
     excluded_neurons |-> {},
     learning_rate |-> cfg.hebbian.base_learning_rate]

NewNeurogenesis(t) ==
    [novelty_counter |-> 0,
     stress_counter |-> 0,
     reward_counter |-> 0,
     new_neurons |-> <<>>,
     last_neuron_time |-> t]

----------------------------------------------------------------------------
(* HebbianLearning *)

\* a faulty debounce test: no call is debounced
DebouncedNever(h, current_time) == FALSE

\* the debounce test of perform_hebbian_learning
Debounced(h, current_time) == current_time - h.last_learning_time < MinInterval

\* the neurons perform_hebbian_learning finds active
ActiveNeurons(h, cfg, st) ==
    { name \in DOMAIN st :
        /\ name \notin h.excluded_neurons
        /\ GetNeuronValueOf(st, name) > cfg.hebbian.active_threshold }

\* neuron_pairs, as unordered pairs
NeuronPairs(active) == { {n1, n2} : n1, n2 \in active } \ { {n} : n \in active }

\* the orders in which the call may visit the pairs it learns: all of them
\* when there are at most sample_size, else random.sample of sample_size
\* a faulty sample size: every pair of active neurons is learned
SampleSizeAll(active) == (Cardinality(active) * (Cardinality(active) - 1)) \div 2

SampleSize(active) == Min(2, (Cardinality(active) * (Cardinality(active) - 1)) \div 2)

SampledPairs(active) ==
    LET pairs == NeuronPairs(active)
        k == SampleSize(active)
    IN  IF Cardinality(pairs) > k
        THEN { sq \in [1..k -> pairs] : \A i, j \in 1..k : i # j => sq[i] # sq[j] }
        ELSE { sq \in [1..Cardinality(pairs) -> pairs] :
                 \A i, j \in 1..Cardinality(pairs) : i # j => sq[i] # sq[j] }

\* a faulty lookup: the connection is made anew, weight 0, even when it exists
EnsureConnectionOverwrite(r, source, target) ==
    IF r.raised THEN r ELSE NetConnect(r.net, source, target, 0, FALSE)

\* "if key not in self.network.connections: self.network.connect(...)" of
\* _update_connection, on the outcome r of what ran before it
EnsureConnection(r, source, target) ==
    IF r.raised \/ <<source, target>> \in DOMAIN r.net.connections THEN r
    ELSE NetConnect(r.net, source, target, 0, FALSE)

\* the two set_weight calls of _update_connection, on the outcome r of the
\* two connection lookups
ChangeWeights(r, h, neuron1, neuron2, value1, value2) ==
    LET cs == r.net.connections
        prev_weight_forward == cs[<<neuron1, neuron2>>].weight
        prev_weight_backward == cs[<<neuron2, neuron1>>].weight
        norm1 == value1
        norm2 == value2
        \* learning_rate * norm1 * norm2, the norms in units of 1 / (100 * VUnit)
        weight_change == (((h.learning_rate * norm1) \div (100 * VUnit)) * norm2) \div (100 * VUnit)
        cs1 == [cs EXCEPT ![<<neuron1, neuron2>>] = SetWeight(@, prev_weight_forward + weight_change)]
        cs2 == [cs1 EXCEPT ![<<neuron2, neuron1>>] = SetWeight(@, prev_weight_backward + weight_change)]
    IN  IF r.raised THEN r
        ELSE [raised |-> FALSE, net |-> [r.net EXCEPT !.connections = cs2]]

\* HebbianLearning._update_connection(neuron1, neuron2, value1, value2)
UpdateConnection(net, h, neuron1, neuron2, value1, value2) ==
    ChangeWeights(
        EnsureConnection(EnsureConnection([raised |-> FALSE, net |-> net], neuron1, neuron2),
                         neuron2, neuron1),
        h, neuron1, neuron2, value1, value2)

\* updated_pairs.append(pair) when _update_connection returned
Updated(r, done, pair) ==
    [raised |-> r.raised, net |-> r.net,
     pairs |-> IF r.raised THEN done ELSE done \cup {pair}]

\* one turn of the loop over sampled_pairs; acc is what the turns before left
LearnPair(acc, h, cfg, pair) ==
    LET neuron1 == CHOOSE n \in pair : TRUE
        neuron2 == CHOOSE n \in pair : n # neuron1
        value1 == GetNeuronValueOf(acc.net.state, neuron1)
        value2 == GetNeuronValueOf(acc.net.state, neuron2)
        threshold == cfg.hebbian.active_threshold
    IN  IF value1 > threshold /\ value2 > threshold
        THEN Updated(UpdateConnection(acc.net, h, neuron1, neuron2, value1, value2),
                     acc.pairs, pair)
        ELSE acc

RECURSIVE LearnPairs(_, _, _, _, _)
\* the loop over sampled_pairs from position i, ended by an exception
LearnPairs(acc, h, cfg, sq, i) ==
    IF i > Len(sq) \/ acc.raised THEN acc
    ELSE LearnPairs(LearnPair(acc, h, cfg, sq[i]), h, cfg, sq, i + 1)

\* a faulty boost: the current rate is multiplied
ModifyLearningRateCompounding(h, cfg, factor) ==
    [h EXCEPT !.learning_rate = (@ * factor) \div 10]

\* HebbianLearning.modify_learning_rate(factor), factor in tenths
ModifyLearningRate(h, cfg, factor) ==
    [h EXCEPT !.learning_rate = (cfg.hebbian.base_learning_rate * factor) \div 10]

----------------------------------------------------------------------------
(* Neurogenesis *)

BaseName(neuron_type) ==
    IF neuron_type = "novelty" THEN "novel"
    ELSE IF neuron_type = "stress" THEN "stress"
    ELSE IF neuron_type = "reward" THEN "reward"
    ELSE "new"

\* f"{base_name}_{len(new_neurons)}"
NewName(ng, neuron_type) == <<BaseName(neuron_type), Sep>> \o NumStr(Len(ng.new_neurons))

RelatedNeurons(neuron_type) ==
    IF neuron_type = "novelty" THEN {<<"curiosity">>}
    ELSE IF neuron_type = "stress" THEN {<<"anxiety">>}
    ELSE IF neuron_type = "reward" THEN {<<"satisfaction">>, <<"happiness">>}
    ELSE {}

\* the neurons sorted(...)[0] may be: those of greatest value
MostActive(net) ==
    { a \in DOMAIN net.neurons :
        \A b \in DOMAIN net.neurons :
            GetNeuronValueOf(net.state, a) >= GetNeuronValueOf(net.state, b) }

\* Neurogenesis._find_position_for_new_neuron; rnd holds the random draws:
\* rnd.anchor breaks a tie between the most active neurons, rnd.offset is the
\* (cos(angle) * distance, sin(angle) * distance) drawn, rnd.canvas the
\* position drawn for an empty network
FindPosition(net, rnd) ==
    IF DOMAIN net.neurons # {}
    THEN LET anchor_name == IF rnd.anchor \in MostActive(net) THEN rnd.anchor
                            ELSE CHOOSE a \in MostActive(net) : TRUE
             base == net.neurons[anchor_name].position.xy
         IN  Tuple(<<base[1] + rnd.offset[1], base[2] + rnd.offset[2]>>)
    ELSE Tuple(rnd.canvas)

RECURSIVE ConnectNewNeuron(_, _, _, _, _, _)
\* Neurogenesis._create_connections_for_new_neuron: the loop over the
\* neurons still to visit (todo), ended by an exception; r is what ran before;
\* rnd.sign[existing] * conn_strength is the weight random.uniform draws
ConnectNewNeuron(r, cfg, excluded, new_name, neuron_type, todo_rnd) ==
    LET todo == todo_rnd.todo
        rnd == todo_rnd.rnd
    IN  IF todo = {} \/ r.raised THEN r
        ELSE LET existing_name == CHOOSE e \in todo : TRUE
                 rest == [todo |-> todo \ {existing_name}, rnd |-> rnd]
                 conn_strength == cfg.neurogenesis.new_neuron_connection_strength
                 weight == IF existing_name \in RelatedNeurons(neuron_type)
                           THEN conn_strength * 2
                           ELSE rnd.sign[existing_name] * conn_strength
             IN  ConnectNewNeuron(
                     IF existing_name # new_name /\ existing_name \notin excluded
                     THEN NetConnect(r.net, new_name, existing_name, weight, TRUE)
                     ELSE r,
                     cfg, excluded, new_name, neuron_type, rest)

\* _create_connections_for_new_neuron over list(self.network.neurons.keys()),
\* run when add_neuron returned
CreateConnections(r, cfg, excluded, new_name, neuron_type, rnd) ==
    ConnectNewNeuron(r, cfg, excluded, new_name, neuron_type,
                     [todo |-> DOMAIN r.net.neurons, rnd |-> rnd])

\* a faulty bookkeeping: the new name is not appended to new_neurons
AppendedNever(r, ng, new_name) == [raised |-> r.raised, net |-> r.net, ng |-> ng]

\* self.new_neurons.append(new_name) when nothing raised before it
Appended(r, ng, new_name) ==
    [raised |-> r.raised, net |-> r.net,
     ng |-> IF r.raised THEN ng ELSE [ng EXCEPT !.new_neurons = Append(@, new_name)]]

InitialActivation == 50

\* Neurogenesis._create_neuron(neuron_type, state)
CreateNeuron(net, ng, cfg, excluded, neuron_type, rnd) ==
    Appended(
        CreateConnections(
            NetAddNeuron(net, NewName(ng, neuron_type), Num(InitialActivation * VUnit),
                         FindPosition(net, rnd), neuron_type),
            cfg, excluded, NewName(ng, neuron_type), neuron_type, rnd),
        ng, NewName(ng, neuron_type))

RECURSIVE CreateNeurons(_, _, _, _, _, _)
\* the loop over trigger_types from position i, ended by an exception
CreateNeurons(r, cfg, excluded, trigger_types, i, rnd) ==
    IF i > Len(trigger_types) \/ r.raised THEN r
    ELSE CreateNeurons(CreateNeuron(r.net, r.ng, cfg, excluded, trigger_types[i], rnd),
                       cfg, excluded, trigger_types, i + 1, rnd)

\* counter *= decay (decay_rate in hundredths), then counter += signal
DecayAdd(counter, decay, signal) == (counter * decay) \div 100 + signal

\* a faulty cooldown test: the cooldown is never observed
InCooldownNever(ng, cfg, current_time) == FALSE

\* the cooldown test of check_neurogenesis
InCooldown(ng, cfg, current_time) ==
    current_time - ng.last_neuron_time <= cfg.neurogenesis.cooldown

\* the counters after the decay and the signals of this call
CountersAfter(ng, cfg, in) ==
    [ng EXCEPT
       !.novelty_counter = DecayAdd(@, cfg.neurogenesis.decay_rate, in.novelty_exposure),
       !.stress_counter = DecayAdd(@, cfg.neurogenesis.decay_rate, in.sustained_stress),
       !.reward_counter = DecayAdd(@, cfg.neurogenesis.decay_rate, in.recent_rewards)]

\* trigger_types, from the counters after the decay and the signals
TriggerTypes(ng1, cfg) ==
    (IF ng1.novelty_counter > cfg.neurogenesis.novelty_threshold THEN <<"novelty">> ELSE <<>>)
    \o (IF ng1.stress_counter > cfg.neurogenesis.stress_threshold THEN <<"stress">> ELSE <<>>)
    \o (IF ng1.reward_counter > cfg.neurogenesis.reward_threshold THEN <<"reward">> ELSE <<>>)

\* the counters of the fired triggers are reset before the neurons are made
ResetFired(ng1, trigger_types) ==
    LET fired == { trigger_types[i] : i \in 1..Len(trigger_types) }
    IN  [ng1 EXCEPT !.novelty_counter = IF "novelty" \in fired THEN 0 ELSE @,
                    !.stress_counter = IF "stress" \in fired THEN 0 ELSE @,
                    !.reward_counter = IF "reward" \in fired THEN 0 ELSE @]

\* the end of check_neurogenesis after the creation loop left r: with a
\* neuron created, last_neuron_time is set and the learning rate boosted
AfterCreation(r, hs, cfg, created, current_time) ==
    IF r.raised
    THEN [raised |-> TRUE, ret |-> FALSE, net |-> r.net, ng |-> r.ng, hs |-> hs]
    ELSE IF created
    THEN [raised |-> FALSE, ret |-> TRUE, net |-> r.net,
          ng |-> [r.ng EXCEPT !.last_neuron_time = current_time],
          hs |-> IF hs # <<>>
                 THEN <<ModifyLearningRate(hs[1], cfg,
                                           cfg.combined.neurogenesis_learning_boost)>>
                 ELSE hs]
    ELSE [raised |-> FALSE, ret |-> FALSE, net |-> r.net, ng |-> r.ng, hs |-> hs]

\* Neurogenesis.check_neurogenesis(state): the helper and network it leaves,
\* whether it raised and what it returned; hs is Network.learning
NgCheck(net, ng, hs, cfg, excluded, in, rnd, current_time) ==
    LET ng1 == CountersAfter(ng, cfg, in)
        trigger_types == TriggerTypes(ng1, cfg)
    IN  IF InCooldown(ng, cfg, current_time)
        THEN [raised |-> FALSE, ret |-> FALSE, net |-> net, ng |-> ng1, hs |-> hs]
        ELSE AfterCreation(
                 CreateNeurons([raised |-> FALSE, net |-> net,
                                ng |-> ResetFired(ng1, trigger_types)],
                               cfg, excluded, trigger_types, 1, rnd),
                 hs, cfg, Len(trigger_types) > 0, current_time)

----------------------------------------------------------------------------
(* Network.update_state, propagate_activation, apply_weight_decay *)

RECURSIVE ApplyUpdatesAdding(_, _, _, _)
\* a faulty loop: a key that is not in the state is stored too
ApplyUpdatesAdding(ns, st, new_state, todo) ==
    IF todo = {} THEN [neurons |-> ns, state |-> st]
    ELSE LET name == CHOOSE x \in todo : TRUE
         IN  ApplyUpdatesAdding(ns, Put(st, name, new_state[name]), new_state, todo \ {name})

RECURSIVE ApplyUpdates(_, _, _, _)
\* the loop of update_state over the items of new_state still to visit
ApplyUpdates(ns, st, new_state, todo) ==
    IF todo = {} THEN [neurons |-> ns, state |-> st]
    ELSE LET name == CHOOSE x \in todo : TRUE
         IN  IF name \in DOMAIN st
             THEN LET st1 == [st EXCEPT ![name] = new_state[name]]
                      ns1 == IF name \in DOMAIN ns
                             THEN [ns EXCEPT ![name] =
                                     RecordActivity(@, GetNeuronValueOf(st1, name),
                                                    DefaultMaxHistory)]
                             ELSE ns
                  IN  ApplyUpdates(ns1, st1, new_state, todo \ {name})
             ELSE ApplyUpdates(ns, st, new_state, todo \ {name})

RECURSIVE SumOver(_, _, _)
\* sum of term[x] over the finite set S
SumOver(S, term, acc) ==
    IF S = {} THEN acc
    ELSE LET x == CHOOSE y \in S : TRUE
         IN  SumOver(S \ {x}, term, acc + term[x])

Sources(net, target) ==
    { source \in DOMAIN net.neurons : <<source, target>> \in DOMAIN net.connections }

\* a faulty clamp: the result is stored as computed
ClampActivationNone(new_value) == new_value

\* max(0, min(100, new_value))
ClampActivation(new_value) == Max(0, Min(100 * VUnit, new_value))

\* the new value of a target with incoming connections, read from net.state
NewValue(net, target) ==
    LET srcs == Sources(net, target)
        count == Cardinality(srcs)
        incoming == SumOver(srcs,
                        [source \in srcs |->
                            GetNeuronValueOf(net.state, source)
                            * net.connections[<<source, target>>].weight], 0)
        current == GetNeuronValueOf(net.state, target)
        \* current * 0.7 + (incoming / count) * 0.3
        blended == (7 * current * count * WUnit + 3 * incoming) \div (10 * count * WUnit)
    IN  ClampActivation(blended)

\* the neurons with at least one incoming connection
Touched(net) == { target \in DOMAIN net.neurons : Sources(net, target) # {} }

RECURSIVE InPlace(_, _)
\* a faulty step: each new value is stored at once and read by later targets
InPlace(net, todo) ==
    IF todo = {} THEN net.state
    ELSE LET target == CHOOSE x \in todo : TRUE
         IN  InPlace([net EXCEPT !.state = (target :> Num(NewValue(net, target))) @@ @],
                     todo \ {target})

PropagateStepInPlace(net) == InPlace(net, Touched(net))

\* one step of propagate_activation: every target is computed from net.state
PropagateStep(net) ==
    [name \in (DOMAIN net.state) \cup Touched(net) |->
        IF name \in Touched(net) THEN Num(NewValue(net, name)) ELSE net.state[name]]

\* Connection.apply_decay(decay_factor)
ApplyDecay(conn, decay_factor) ==
    SetWeight(conn, (conn.weight * (WUnit - decay_factor)) \div WUnit)

----------------------------------------------------------------------------
(* Network.save and Network.load *)

\* the data save writes with json.dump and load reads back with json.load:
\* a tuple comes back as a list
SaveData(net, cfg, count) ==
    [neurons |-> [name \in DOMAIN net.neurons |->
                     [position |-> List(net.neurons[name].position.xy),
                      type |-> net.neurons[name].type]],
     connections |->
        [key \in { JoinKey(p[1], p[2]) : p \in DOMAIN net.connections } |->
            [weight |-> net.connections[
                            CHOOSE p \in DOMAIN net.connections :
                                JoinKey(p[1], p[2]) = key].weight]],
     state |-> net.state,
     config |-> [hebbian |-> cfg.hebbian, neurogenesis |-> cfg.neurogenesis],
     metadata |-> [update_count |-> count]]

RECURSIVE LoadNeurons(_, _, _)
\* the loop of load over data["neurons"], ended by an exception
LoadNeurons(r, data, todo) ==
    IF todo = {} \/ r.raised THEN r
    ELSE LET name == CHOOSE x \in todo : TRUE
         IN  LoadNeurons(NetAddNeuron(r.net, name, Num(0), data.neurons[name].position,
                                      data.neurons[name].type),
                         data, todo \ {name})

\* src, tgt = key.split("_") raises unless there are two parts
LoadConnection(net, data, key, parts) ==
    IF Len(parts) # 2 THEN [raised |-> TRUE, net |-> net]
    ELSE NetConnect(net, parts[1], parts[2], data.connections[key].weight, FALSE)

RECURSIVE LoadConnectionsSkipping(_, _, _)
\* a faulty loop: a connection that cannot be rebuilt is skipped
LoadConnectionsSkipping(r, data, todo) ==
    IF todo = {} THEN r
    ELSE LET key == CHOOSE x \in todo : TRUE
             r1 == LoadConnection(r.net, data, key, Split(key))
         IN  LoadConnectionsSkipping(IF r1.raised THEN r ELSE r1, data, todo \ {key})

RECURSIVE LoadConnections(_, _, _)
\* the loop of load over data["connections"], ended by an exception
LoadConnections(r, data, todo) ==
    IF todo = {} \/ r.raised THEN r
    ELSE LET key == CHOOSE x \in todo : TRUE
         IN  LoadConnections(LoadConnection(r.net, data, key, Split(key)),
                             data, todo \ {key})

\* the content of a file is a JSON document, a record with the keys save
\* writes, or text that json.load rejects with an exception
JsonLoadRaises(content) == DOMAIN content = {"text"}

EmptyNet == [neurons |-> <<>>, connections |-> <<>>, state |-> <<>>]

\* what load returns after the two loops left r: None when one raised
Loaded(r, data) ==
    IF r.raised
    THEN [ok |-> FALSE, net |-> EmptyNet, config |-> DefaultConfig, update_count |-> 0]
    ELSE [ok |-> TRUE,
          net |-> [r.net EXCEPT !.state = data.state],
          config |-> [DefaultConfig EXCEPT !.hebbian = data.config.hebbian,
                                           !.neurogenesis = data.config.neurogenesis],
          update_count |-> data.metadata.update_count]

\* Network.load on the data of the file: ok is FALSE when load returns None
LoadData(data) ==
    Loaded(LoadConnections(LoadNeurons([raised |-> FALSE, net |-> EmptyNet],
                                       data, DOMAIN data.neurons),
                           data, DOMAIN data.connections),
           data)

----------------------------------------------------------------------------
(* BackpropNetwork *)

BpLearningRate == WUnit \div 10
BpMomentum == 9     \* 0.9, in tenths

\* sigmoid(x) * 100.0 for x in units of 1 / WUnit, at the model's resolution:
\* the piecewise-linear curve through sigmoid(0) = 0.5 with slope 1/4,
\* kept inside [0, 1] as the real one is
Sigmoid100(x) == Max(0, Min(100 * VUnit, 50 * VUnit + (x * 25 * VUnit) \div WUnit))

\* state[name] / 100.0 raises KeyError without an entry and TypeError on a string
DivRaises(st, name) == name \notin DOMAIN st \/ IsStr(st[name])

\* state[name] / 100.0, in units of 1 / WUnit
Norm(st, name) == (ToFloat(st[name]) * WUnit) \div (100 * VUnit)

RECURSIVE SetInputs(_, _, _, _)
\* the loop of forward_pass over the input layer from position i
SetInputs(st, input_layer, inputs, i) ==
    IF i > Len(input_layer) THEN st
    ELSE IF i <= Len(inputs)
    THEN SetInputs(Put(st, input_layer[i], inputs[i]), input_layer, inputs, i + 1)
    ELSE SetInputs(st, input_layer, inputs, i + 1)

RECURSIVE WeightedSum(_, _, _, _, _)
\* the loop over prev_layer from position j; acc is weighted_sum
WeightedSum(net, st, prev_layer, neuron_name, j_acc) ==
    LET j == j_acc[1]
        acc == j_acc[2]
    IN  IF j > Len(prev_layer) THEN [raised |-> FALSE, sum |-> acc]
        ELSE IF <<prev_layer[j], neuron_name>> \in DOMAIN net.connections
        THEN IF DivRaises(st, prev_layer[j]) THEN [raised |-> TRUE, sum |-> acc]
             ELSE WeightedSum(net, st, prev_layer, neuron_name,
                    <<j + 1,
                      acc + (net.connections[<<prev_layer[j], neuron_name>>].weight
                             * Norm(st, prev_layer[j])) \div WUnit>>)
        ELSE WeightedSum(net, st, prev_layer, neuron_name, <<j + 1, acc>>)

\* self.network.state[neuron_name] = sigmoid(weighted_sum) * 100.0
Activate(r, ws, neuron_name) ==
    IF ws.raised THEN [raised |-> TRUE, state |-> r.state]
    ELSE [raised |-> FALSE, state |-> Put(r.state, neuron_name, Num(Sigmoid100(ws.sum)))]

RECURSIVE ForwardLayer(_, _, _, _, _)
\* the loop over current_layer from position i, ended by an exception
ForwardLayer(net, r, prev_layer, current_layer, i) ==
    IF i > Len(current_layer) \/ r.raised THEN r
    ELSE ForwardLayer(net,
                      Activate(r, WeightedSum(net, r.state, prev_layer, current_layer[i],
                                              <<1, 0>>),
                               current_layer[i]),
                      prev_layer, current_layer, i + 1)

RECURSIVE ForwardLayers(_, _, _, _)
\* the loop over layer_idx (1-based here) from ly, ended by an exception
ForwardLayers(net, r, lys, ly) ==
    IF ly > Len(lys) \/ r.raised THEN r
    ELSE ForwardLayers(net, ForwardLayer(net, r, lys[ly - 1], lys[ly], 1), lys, ly + 1)

\* the return statement reads the state of every output neuron
ReadOutputs(r, out) ==
    IF r.raised THEN r
    ELSE [raised |-> \E i \in 1..Len(out) : out[i] \notin DOMAIN r.state,
          state |-> r.state]

\* BackpropNetwork.forward_pass(inputs): whether it raised and the state it leaves
ForwardPass(net, lys, inputs) ==
    IF lys = <<>> THEN [raised |-> TRUE, state |-> net.state]
    ELSE ReadOutputs(
             ForwardLayers(net,
                           [raised |-> FALSE,
                            state |-> SetInputs(net.state, lys[1], inputs, 1)],
                           lys, 2),
             lys[Len(lys)])

\* every neuron of every layer: backward_pass divides the state of each by
\* 100.0 before it updates any weight
AllLayerNeurons(lys) ==
    UNION { { lys[i][j] : j \in 1..Len(lys[i]) } : i \in 1..Len(lys) }

\* output * (1 - output) * e, all in units of 1 / WUnit
Deriv(e, output) == (((e * output) \div WUnit) * (WUnit - output)) \div WUnit

RECURSIVE OutputDeltas(_, _, _, _, _)
OutputDeltas(st, output_layer, targets, i, deltas) ==
    IF i > Len(output_layer) THEN deltas
    ELSE LET output == Norm(st, output_layer[i])
             target == (targets[i] * WUnit) \div (100 * VUnit)
         IN  OutputDeltas(st, output_layer, targets, i + 1,
                          Put(deltas, output_layer[i], Deriv(target - output, output)))

RECURSIVE ErrorSum(_, _, _, _, _)
ErrorSum(net, next_layer, neuron_name, deltas, j_acc) ==
    LET j == j_acc[1]
        acc == j_acc[2]
    IN  IF j > Len(next_layer) THEN acc
        ELSE IF <<neuron_name, next_layer[j]>> \in DOMAIN net.connections
        THEN ErrorSum(net, next_layer, neuron_name, deltas,
               <<j + 1,
                 acc + (net.connections[<<neuron_name, next_layer[j]>>].weight
                        * deltas[next_layer[j]]) \div WUnit>>)
        ELSE ErrorSum(net, next_layer, neuron_name, deltas, <<j + 1, acc>>)

RECURSIVE HiddenDeltasLayer(_, _, _, _, _)
HiddenDeltasLayer(net, current_layer, next_layer, i, deltas) ==
    IF i > Len(current_layer) THEN deltas
    ELSE LET error_sum == ErrorSum(net, next_layer, current_layer[i], deltas, <<1, 0>>)
             output == Norm(net.state, current_layer[i])
         IN  HiddenDeltasLayer(net, current_layer, next_layer, i + 1,
                               Put(deltas, current_layer[i], Deriv(error_sum, output)))

RECURSIVE HiddenDeltas(_, _, _, _)
\* the loop over layer_idx from len(layers) - 2 down to 0 (1-based: ly)
HiddenDeltas(net, lys, ly, deltas) ==
    IF ly < 1 THEN deltas
    ELSE HiddenDeltas(net, lys, ly - 1,
                      HiddenDeltasLayer(net, lys[ly], lys[ly + 1], 1, deltas))

RECURSIVE UpdateWeightsNeuronCreating(_, _, _, _, _)
\* a faulty loop: a connection that is missing is made
UpdateWeightsNeuronCreating(cp, st, neuron_name, next_layer_deltas, j) ==
    LET next_layer == next_layer_deltas.layer
    IN  IF j > Len(next_layer) THEN cp
        ELSE LET conn_key == <<neuron_name, next_layer[j]>>
             IN  UpdateWeightsNeuronCreating(
                     [connections |-> IF conn_key \in DOMAIN cp.connections
                                      THEN [cp.connections EXCEPT ![conn_key] =
                                              SetWeight(@, @.weight + 1)]
                                      ELSE Put(cp.connections, conn_key,
                                               NewConnection(0, FALSE)),
                      prev |-> Put(cp.prev, conn_key, 1)],
                     st, neuron_name, next_layer_deltas, j + 1)

RECURSIVE UpdateWeightsNeuron(_, _, _, _, _)
\* the loop over next_layer from position j for one neuron of the current
\* layer; cp = [connections, prev] are the weights and the momentum cache
UpdateWeightsNeuron(cp, st, neuron_name, next_layer_deltas, j) ==
    LET next_layer == next_layer_deltas.layer
        deltas == next_layer_deltas.deltas
    IN  IF j > Len(next_layer) THEN cp
        ELSE LET conn_key == <<neuron_name, next_layer[j]>>
             IN  IF conn_key \in DOMAIN cp.connections
                 THEN LET output == Norm(st, neuron_name)
                          base == (((BpLearningRate * deltas[next_layer[j]]) \div WUnit)
                                   * output) \div WUnit
                          delta_w == IF conn_key \in DOMAIN cp.prev
                                     THEN base + (BpMomentum * cp.prev[conn_key]) \div 10
                                     ELSE base
                          old_weight == cp.connections[conn_key].weight
                      IN  UpdateWeightsNeuron(
                              [connections |-> [cp.connections EXCEPT ![conn_key] =
                                                  SetWeight(@, old_weight + delta_w)],
                               prev |-> Put(cp.prev, conn_key, delta_w)],
                              st, neuron_name, next_layer_deltas, j + 1)
                 ELSE UpdateWeightsNeuron(cp, st, neuron_name, next_layer_deltas, j + 1)

RECURSIVE UpdateWeightsLayer(_, _, _, _, _)
UpdateWeightsLayer(cp, st, current_layer, next_layer_deltas, i) ==
    IF i > Len(current_layer) THEN cp
    ELSE UpdateWeightsLayer(
            UpdateWeightsNeuron(cp, st, current_layer[i], next_layer_deltas, 1),
            st, current_layer, next_layer_deltas, i + 1)

RECURSIVE UpdateWeights(_, _, _, _, _)
UpdateWeights(cp, st, lys, deltas, ly) ==
    IF ly > Len(lys) - 1 THEN cp
    ELSE UpdateWeights(
            UpdateWeightsLayer(cp, st, lys[ly], [layer |-> lys[ly + 1], deltas |-> deltas], 1),
            st, lys, deltas, ly + 1)

\* a faulty test: the number of targets is not compared with the output layer
ArgumentsRejectedLayersOnly(lys, targets) == lys = <<>>

\* the two tests backward_pass makes before it computes anything
ArgumentsRejected(lys, targets) == lys = <<>> \/ Len(targets) # Len(lys[Len(lys)])

\* BackpropNetwork.backward_pass(targets): whether it raised, and the
\* connections and momentum cache it leaves
BackwardPass(net, lys, prev, targets) ==
    IF ArgumentsRejected(lys, targets)
       \/ \E name \in AllLayerNeurons(lys) : DivRaises(net.state, name)
    THEN [raised |-> TRUE, connections |-> net.connections, prev |-> prev]
    ELSE LET d0 == OutputDeltas(net.state, lys[Len(lys)], targets, 1, <<>>)
             deltas == HiddenDeltas(net, lys, Len(lys) - 1, d0)
             cp == UpdateWeights([connections |-> net.connections, prev |-> prev],
                                 net.state, lys, deltas, 1)
         IN  [raised |-> FALSE, connections |-> cp.connections, prev |-> cp.prev]

RECURSIVE SquaredErrors(_, _, _, _)
\* the loop of backward_pass that sums (target - output) ** 2 over the output
\* layer from position i, in units of 1 / WUnit
SquaredErrors(st, output_layer, targets, i) ==
    IF i > Len(output_layer) THEN 0
    ELSE LET output == Norm(st, output_layer[i])
             target == (targets[i] * WUnit) \div (100 * VUnit)
         IN  ((target - output) * (target - output)) \div WUnit
             + SquaredErrors(st, output_layer, targets, i + 1)

\* mse, the first value backward_pass returns
Mse(st, output_layer, targets) ==
    SquaredErrors(st, output_layer, targets, 1) \div Len(output_layer)

\* "error, _ = self.backward_pass(targets); epoch_error += error" on the
\* outcome bp of the backward pass
AfterBackward(r, fp, bp, lys, targets) ==
    IF bp.raised THEN [r EXCEPT !.raised = TRUE, !.net.state = fp.state]
    ELSE [r EXCEPT !.net.state = fp.state,
                   !.net.connections = bp.connections,
                   !.prev = bp.prev,
                   !.epoch_error = @ + Mse(fp.state, lys[Len(lys)], targets)]

\* the backward pass of one example, run when the forward pass fp returned
AfterForward(r, fp, lys, targets) ==
    IF fp.raised THEN [r EXCEPT !.raised = TRUE, !.net.state = fp.state]
    ELSE AfterBackward(r, fp,
                       BackwardPass([r.net EXCEPT !.state = fp.state], lys, r.prev, targets),
                       lys, targets)

RECURSIVE TrainExamples(_, _, _, _, _)
\* the loop of train over the shuffled training_data from position i, ended
\* by an exception
TrainExamples(r, lys, training_data, order, i) ==
    IF i > Len(order) \/ r.raised THEN r
    ELSE TrainExamples(AfterForward(r, ForwardPass(r.net, lys, training_data[order[i]][1]),
                                    lys, training_data[order[i]][2]),
                       lys, training_data, order, i + 1)

\* a faulty end of an epoch: the average error is not compared with target_error
EpochEndNoTarget(r, t, epoch) ==
    IF r.raised THEN r
    ELSE [r EXCEPT !.errors = Append(@, r.epoch_error \div Len(t.training_data)),
                   !.stopped = t.callback # <<>> /\ ~t.callback[epoch]]

\* the end of an epoch: avg_error is appended, then the callback's answer and
\* the target error decide whether the loop breaks
EpochEnd(r, t, epoch) ==
    IF r.raised THEN r
    ELSE [r EXCEPT !.errors = Append(@, r.epoch_error \div Len(t.training_data)),
                   !.stopped = \/ t.callback # <<>> /\ ~t.callback[epoch]
                               \/ r.epoch_error \div Len(t.training_data) <= t.target_error]

RECURSIVE TrainEpochs(_, _, _, _)
\* the loop of train over range(epochs) from epoch (1-based), ended by a
\* break or an exception; t holds the arguments and orders the shuffles
TrainEpochs(r, t, orders, epoch) ==
    IF epoch > t.epochs \/ r.raised \/ r.stopped THEN r
    ELSE TrainEpochs(EpochEnd(TrainExamples([r EXCEPT !.epoch_error = 0], t.layers,
                                            t.training_data, orders[epoch], 1),
                              t, epoch),
                     t, orders, epoch + 1)

\* BackpropNetwork.train(training_data, epochs, target_error, callback)
TrainRun(net, lys, prev, in, orders) ==
    TrainEpochs([raised |-> FALSE, stopped |-> FALSE, net |-> net, prev |-> prev,
                 epoch_error |-> 0, errors |-> <<>>],
                [layers |-> lys, training_data |-> in.training_data, epochs |-> in.epochs,
                 target_error |-> in.target_error, callback |-> in.callback],
                orders, 1)

----------------------------------------------------------------------------
(* Inputs explored *)

AddInputs ==
    { [name |-> A, initial_state |-> Num(80 * VUnit), position |-> NoPosition, type |-> "default"],
      [name |-> B, initial_state |-> Str("on"), position |-> Tuple(<<3, 4>>), type |-> "sensor"],
      [name |-> Novel0, initial_state |-> Num(60 * VUnit), position |-> NoPosition, type |-> "default"] }

ConnectInputs ==
    { [source |-> A, target |-> B, weight |-> 5 * WUnit, bidirectional |-> FALSE],
      [source |-> B, target |-> A, weight |-> -(WUnit \div 2), bidirectional |-> TRUE] }

ExcludeInputs == {A}

RemoveInputs == {Novel0}

\* the builder's property panel when a name is edited: the selected neuron,
\* the name typed, and the position, type and value fields, which show what
\* neuron A was added with
RenameInputs ==
    { [selected |-> A, new_name |-> new_name, x |-> 0, y |-> 0, type |-> "default",
       value |-> Num(80 * VUnit)] : new_name \in {Ghost, B} }

UpdateInputs == { (A :> Bool(TRUE)) @@ (Ghost :> Num(90 * VUnit)) }

SignalInputs ==
    { [novelty_exposure |-> 4 * CUnit, sustained_stress |-> 0, recent_rewards |-> 0] }

\* signals that make one, two and three triggers fire: the second leaves the
\* reward counter below its threshold, and a later call lifts it above
GenesisInputs ==
    SignalInputs \cup
    { [novelty_exposure |-> 4 * CUnit, sustained_stress |-> (8 * CUnit) \div 10,
       recent_rewards |-> (4 * CUnit) \div 10],
      [novelty_exposure |-> 0, sustained_stress |-> 0, recent_rewards |-> (4 * CUnit) \div 10] }

LayerInputs == { <<<<A>>, <<B>>>>, <<<<Ghost>>>> }

ForwardInputs == { <<Num(90 * VUnit)>> }

\* connections and layers over the two neurons whose initial state is a
\* number: an edge with its reverse, and layers in both orders
BackpropConnects ==
    ConnectInputs \cup
    { [source |-> A, target |-> Novel0, weight |-> WUnit \div 2, bidirectional |-> TRUE],
      [source |-> A, target |-> Novel0, weight |-> WUnit \div 4, bidirectional |-> FALSE] }

BackpropLayers == LayerInputs \cup { <<<<A>>, <<Novel0>>>>, <<<<Novel0>>, <<A>>>> }

TargetInputs == { <<100 * VUnit>>, <<100 * VUnit, 0>> }

\* a JSON document with the given neurons and connection keys
Document(names, keys) ==
    [neurons |-> [name \in names |-> [position |-> List(<<0, 0>>), type |-> "default"]],
     connections |-> [key \in keys |-> [weight |-> WUnit \div 2]],
     state |-> [name \in names |-> Num(10 * VUnit)],
     config |-> [hebbian |-> CustomConfig.hebbian, neurogenesis |-> CustomConfig.neurogenesis],
     metadata |-> [update_count |-> 7]]

\* files put at the path: a well-formed one, one whose second connection has
\* an endpoint that is no neuron of the file, one with a key of three parts,
\* one with a key of one part, and one that is not JSON
FileInputs ==
    { Document({A, B}, {JoinKey(A, B)}),
      Document({A, B}, {JoinKey(A, B), JoinKey(B, Ghost)}),
      Document({A, B}, {JoinKey(A, B), JoinKey(JoinKey(A, B), A)}),
      Document({A, B}, {JoinKey(A, B), A \o B}),
      [text |-> "{"] }

MaxEpochs == 3

\* the writes of one Connection explored in one run, and how many of the first
\* of them are explored with every operation and weight
MaxWrites == 102
BranchWrites == 3

\* the weights explored: out of range on both sides at first, then one weight
\* per write, so that the entries of the history can be told apart
WeightInputs(writes) ==
    IF writes < BranchWrites THEN {5 * WUnit, -5 * WUnit, WUnit \div 4} ELSE {writes * 10}

MaxRecords == 6

\* the values recorded and the max_history arguments they are recorded with
RecordInputs == { [value |-> v, max_history |-> m] : v \in {0, 7 * VUnit}, m \in {1, 2, 3} }

\* the answers of the callback, epoch by epoch; <<>> when callback is None
Callbacks == { <<>>, [e \in 1..MaxEpochs |-> e # 2] }

Examples == << <<<<Num(90 * VUnit)>>, <<100 * VUnit>>>>,
               <<<<Num(10 * VUnit)>>, <<0>>>> >>

\* target_error 0.0001 is not reached in MaxEpochs epochs, 1.0 always is
TrainInputs ==
    [training_data : { SubSeq(Examples, 1, 1), Examples },
     epochs : {1, MaxEpochs},
     target_error : {1, WUnit},
     callback : Callbacks]

\* the orders random.shuffle may leave the examples in
Shuffles(training_data) ==
    { order \in [1..Len(training_data) -> 1..Len(training_data)] :
        \A i, j \in 1..Len(training_data) : i # j => order[i] # order[j] }

TickSet == {4, 301}

\* the random draws of one check_neurogenesis call
Offsets == { <<50, 0>>, <<0, -100>> }
Canvas == { <<100, 100>> }
Signs == {-1, 1}

Configs == {CustomConfig}

----------------------------------------------------------------------------
(* Network.__init__ *)

Init ==
    /\ neurons = <<>>
    /\ connections = <<>>
    /\ state = <<>>
    /\ update_count = 0
    /\ excluded_neurons = {}
    /\ config \in Configs
    /\ learning = <<>>
    /\ neurogenesis = <<>>
    /\ layers = <<>>
    /\ prev_weight_changes = <<>>
    /\ now = 0
    /\ file = <<>>
    /\ lone_connection = <<>>
    /\ lone_neuron = <<>>
    /\ last = Result("init", FALSE)
    /\ hist = [calls |-> 0, ticks |-> 0, learn_call |-> -1, learn_debounced |-> FALSE,
               prev_call |-> -1, prev_debounced |-> FALSE, created_at |-> -1,
               generated |-> {}, train |-> <<>>, writes |-> 0, signal |-> <<>>,
               constructed_at |-> -1]

----------------------------------------------------------------------------
(* Actions *)

\* every engine call is explored while the run has made fewer than MaxCalls
CanCall == hist.calls < MaxCalls
Called == [hist EXCEPT !.calls = @ + 1]

\* Network.add_neuron(name, initial_state, position, neuron_type)
AddNeuron(in) ==
    LET r == NetAddNeuron(Net, in.name, in.initial_state, in.position, in.type)
    IN  /\ CanCall
        /\ neurons' = r.net.neurons
        /\ state' = r.net.state
        /\ last' = Result("add_neuron", r.raised)
        /\ hist' = Called
        /\ UNCHANGED <<connections, update_count, excluded_neurons, config,
                       helperVars, bpVars, now, file, lone_connection, lone_neuron>>

\* Network.connect(source, target, weight, bidirectional)
Connect(in) ==
    LET r == NetConnect(Net, in.source, in.target, in.weight, in.bidirectional)
    IN  /\ CanCall
        /\ connections' = r.net.connections
        /\ last' = Result("connect", r.raised)
        /\ hist' = Called
        /\ UNCHANGED <<neurons, state, update_count, excluded_neurons, config,
                       helperVars, bpVars, now, file, lone_connection, lone_neuron>>

\* the caller appends a name to Network.excluded_neurons, the public list of
\* the neurons to exclude from learning
Exclude(name) ==
    /\ CanCall
    /\ name \notin excluded_neurons
    /\ excluded_neurons' = excluded_neurons \cup {name}
    /\ last' = Result("exclude", FALSE)
    /\ hist' = Called
    /\ UNCHANGED <<neurons, connections, state, update_count, config,
                   helperVars, bpVars, now, file, lone_connection, lone_neuron>>

\* the builder's remove_neuron(name): the connections of the neuron, its state
\* entry and the neuron are deleted from the network
RemoveNeuron(name) ==
    /\ CanCall
    /\ name \in DOMAIN neurons
    /\ connections' = [p \in { q \in DOMAIN connections : name # q[1] /\ name # q[2] } |->
                          connections[p]]
    /\ state' = [n \in DOMAIN state \ {name} |-> state[n]]
    /\ neurons' = [n \in DOMAIN neurons \ {name} |-> neurons[n]]
    /\ last' = Result("remove_neuron", FALSE)
    /\ hist' = Called
    /\ UNCHANGED <<update_count, excluded_neurons, config, helperVars, bpVars, now, file, lone_connection, lone_neuron>>

\* the connections of the network that touch a neuron
Touching(conns, name) == { p \in DOMAIN conns : p[1] = name \/ p[2] = name }

\* a connection key with the old name replaced by the new one
Renamed(p, old_name, new_name) ==
    <<IF p[1] = old_name THEN new_name ELSE p[1], IF p[2] = old_name THEN new_name ELSE p[2]>>

RECURSIVE Reconnect(_, _, _, _, _)
\* "for src, tgt, weight in connections_to_update: self.network.connect(src,
\* tgt, weight)" over the keys still to visit, ended by an exception; old is
\* the connections before the handler deleted any
Reconnect(r, old, todo, old_name, new_name) ==
    IF todo = {} \/ r.raised THEN r
    ELSE LET p == CHOOSE q \in todo : TRUE
             q == Renamed(p, old_name, new_name)
         IN  Reconnect(NetConnect(r.net, q[1], q[2], old[p].weight, FALSE),
                       old, todo \ {p}, old_name, new_name)

\* the builder's update_neuron_property(): the position, type and value of the
\* selected neuron are taken from the panel; when the name typed is new, the
\* state is copied to it, the connections of the old name are deleted and
\* connected again under the new name, and only then the neuron is put under
\* the new name and the old neuron and state entry are deleted. A connection
\* from the neuron to itself is deleted twice, which raises as well
RenameNeuron(in) ==
    /\ CanCall
    /\ in.selected \in DOMAIN neurons
    /\ LET selected == in.selected
           new_name == in.new_name
           ns1 == [neurons EXCEPT ![selected].position = Tuple(<<in.x, in.y>>),
                                  ![selected].type = in.type]
           st1 == Put(state, selected, in.value)
           touched == Touching(connections, selected)
           kept == [p \in DOMAIN connections \ touched |-> connections[p]]
       IN  IF new_name # selected /\ new_name \notin DOMAIN neurons
           THEN \E r \in { Reconnect([raised |-> <<selected, selected>> \in touched,
                                       net |-> [neurons |-> ns1, connections |-> kept,
                                                state |-> Put(st1, new_name, st1[selected])]],
                                      connections, touched, selected, new_name) } :
                    /\ connections' = r.net.connections
                    /\ IF r.raised
                       THEN /\ neurons' = r.net.neurons
                            /\ state' = r.net.state
                       ELSE /\ neurons' =
                                 [n \in (DOMAIN ns1 \ {selected}) \cup {new_name} |->
                                    IF n = new_name
                                    THEN NewNeuron(ns1[selected].position, ns1[selected].type)
                                    ELSE ns1[n]]
                            /\ state' = [n \in DOMAIN r.net.state \ {selected} |->
                                           r.net.state[n]]
                    /\ last' = Result("update_neuron_property", r.raised)
           ELSE /\ neurons' = ns1
                /\ state' = st1
                /\ UNCHANGED connections
                /\ last' = Result("update_neuron_property", FALSE)
    /\ hist' = [Called EXCEPT !.signal = in]
    /\ UNCHANGED <<update_count, excluded_neurons, config, helperVars, bpVars, now, file,
                   lone_connection, lone_neuron>>

\* Network.update_state(new_state)
UpdateState(new_state) ==
    /\ CanCall
    /\ LET r == ApplyUpdates(neurons, state, new_state, DOMAIN new_state)
       IN  /\ neurons' = r.neurons
           /\ state' = r.state
    /\ update_count' = update_count + 1
    /\ last' = Result("update_state", FALSE)
    /\ hist' = Called
    /\ UNCHANGED <<connections, excluded_neurons, config, helperVars, bpVars, now, file, lone_connection, lone_neuron>>

\* Network.propagate_activation(steps = 1)
PropagateActivation ==
    /\ CanCall
    /\ state' = PropagateStep(Net)
    /\ last' = Result("propagate_activation", FALSE)
    /\ hist' = Called
    /\ UNCHANGED <<neurons, connections, update_count, excluded_neurons, config,
                   helperVars, bpVars, now, file, lone_connection, lone_neuron>>

\* Network.apply_weight_decay()
ApplyWeightDecay ==
    /\ CanCall
    /\ connections' = [p \in DOMAIN connections |->
                          ApplyDecay(connections[p], config.hebbian.weight_decay)]
    /\ last' = Result("apply_weight_decay", FALSE)
    /\ hist' = Called
    /\ UNCHANGED <<neurons, state, update_count, excluded_neurons, config,
                   helperVars, bpVars, now, file, lone_connection, lone_neuron>>

\* Network.perform_learning(): initialize_learning when there is no helper
\* yet, then HebbianLearning.perform_hebbian_learning()
PerformLearning ==
    LET fresh == learning = <<>>
        h == IF fresh THEN NewHebbian(config, now) ELSE learning[1]
        ng == IF fresh THEN <<NewNeurogenesis(now)>> ELSE neurogenesis
        current_time == now
        active == ActiveNeurons(h, config, state)
        Learned(debounced) == [Called EXCEPT !.prev_call = hist.learn_call,
                                             !.prev_debounced = hist.learn_debounced,
                                             !.learn_call = now,
                                             !.constructed_at = IF fresh THEN now ELSE @,
                                             !.learn_debounced = debounced]
    IN  /\ CanCall
        /\ neurogenesis' = ng
        /\ IF Debounced(h, current_time)
           THEN /\ learning' = <<h>>
                /\ last' = Result("perform_learning", FALSE)
                /\ hist' = Learned(TRUE)
                /\ UNCHANGED connections
           ELSE /\ learning' = <<[h EXCEPT !.last_learning_time = current_time]>>
                /\ hist' = Learned(FALSE)
                /\ IF Cardinality(active) < 2
                   THEN /\ last' = Result("perform_learning", FALSE)
                        /\ UNCHANGED connections
                   ELSE \E sq \in SampledPairs(active) :
                        \E r \in { LearnPairs([raised |-> FALSE, net |-> Net, pairs |-> {}],
                                              h, config, sq, 1) } :
                              /\ connections' = r.net.connections
                              /\ last' = [Result("perform_learning", r.raised) EXCEPT
                                              !.pairs = r.pairs]
        /\ UNCHANGED <<neurons, state, update_count, excluded_neurons, config,
                       bpVars, now, file, lone_connection, lone_neuron>>

\* the names of the neurons one check_neurogenesis call creates
CreatedNames(ng, trigger_types) ==
    { <<BaseName(trigger_types[i]), Sep>> \o NumStr(Len(ng.new_neurons) + i - 1) :
        i \in 1..Len(trigger_types) }

\* the random draws of one check_neurogenesis call: none are made in the
\* cooldown or when no trigger fires
RandomDraws(ng, in) ==
    LET trigger_types == TriggerTypes(CountersAfter(ng, config, in), config)
    IN  IF InCooldown(ng, config, now) \/ trigger_types = <<>>
        THEN { [offset |-> <<0, 0>>, canvas |-> <<0, 0>>, anchor |-> <<>>, sign |-> <<>>] }
        ELSE [offset : Offsets,
              canvas : Canvas,
              anchor : IF DOMAIN neurons = {} THEN {<<>>} ELSE MostActive(Net),
              sign : [((DOMAIN neurons) \cup CreatedNames(ng, trigger_types))
                        \ excluded_neurons -> Signs]]

\* Network.check_neurogenesis(state): initialize_learning when there is no
\* helper yet, then Neurogenesis.check_neurogenesis(state)
CheckNeurogenesis(in) ==
    LET fresh == neurogenesis = <<>>
        ng == IF fresh THEN NewNeurogenesis(now) ELSE neurogenesis[1]
        hs == IF fresh THEN <<NewHebbian(config, now)>> ELSE learning
    IN  /\ CanCall
        /\ \E rnd \in RandomDraws(ng, in) :
             \E r \in { NgCheck(Net, ng, hs, config, excluded_neurons, in, rnd, now) } :
                 /\ neurons' = r.net.neurons
                 /\ connections' = r.net.connections
                 /\ state' = r.net.state
                 /\ neurogenesis' = <<r.ng>>
                 /\ learning' = r.hs
                 /\ last' = [Result("check_neurogenesis", r.raised) EXCEPT !.flag = r.ret]
                 /\ hist' = [Called EXCEPT
                                !.signal = in,
                                !.constructed_at = IF fresh THEN now ELSE @,
                                !.created_at = IF r.ret THEN now ELSE @,
                                !.generated = @ \cup (DOMAIN r.net.neurons \ DOMAIN neurons)]
        /\ UNCHANGED <<update_count, excluded_neurons, config, bpVars, now, file, lone_connection, lone_neuron>>

\* BackpropNetwork.set_layers(layers)
SetLayers(lys) ==
    /\ CanCall
    /\ layers' = lys
    /\ prev_weight_changes' = <<>>
    /\ last' = Result("set_layers", FALSE)
    /\ hist' = Called
    /\ UNCHANGED <<netVars, helperVars, now, file, lone_connection, lone_neuron>>

\* BackpropNetwork.forward_pass(inputs)
DoForwardPass(inputs) ==
    /\ CanCall
    /\ \E r \in { ForwardPass(Net, layers, inputs) } :
        /\ state' = r.state
        /\ last' = Result("forward_pass", r.raised)
        /\ hist' = Called
        /\ UNCHANGED <<neurons, connections, update_count, excluded_neurons, config,
                       helperVars, bpVars, now, file, lone_connection, lone_neuron>>

\* BackpropNetwork.backward_pass(targets)
DoBackwardPass(targets) ==
    /\ CanCall
    /\ \E r \in { BackwardPass(Net, layers, prev_weight_changes, targets) } :
        /\ connections' = r.connections
        /\ prev_weight_changes' = r.prev
        /\ last' = Result("backward_pass", r.raised)
        /\ hist' = Called
        /\ UNCHANGED <<neurons, state, update_count, excluded_neurons, config,
                       helperVars, layers, now, file, lone_connection, lone_neuron>>

\* Network.save(filepath)
Save ==
    /\ CanCall
    /\ file' = <<SaveData(Net, config, update_count)>>
    /\ last' = [Result("save", FALSE) EXCEPT !.flag = TRUE]
    /\ hist' = Called
    /\ UNCHANGED <<netVars, helperVars, bpVars, now, lone_connection, lone_neuron>>

\* Network.load(filepath): the caller goes on with the network load returns,
\* which has no helpers yet and no BackpropNetwork around it; when load
\* returns None (no file, or an exception while rebuilding) it keeps the
\* network it had
Load ==
    /\ CanCall
    /\ \E r \in { IF file = <<>> \/ JsonLoadRaises(file[1])
                  THEN [ok |-> FALSE, net |-> EmptyNet, config |-> DefaultConfig,
                        update_count |-> 0]
                  ELSE LoadData(file[1]) } :
        /\ last' = [Result("load", FALSE) EXCEPT !.flag = r.ok]
        /\ IF r.ok
           THEN /\ neurons' = r.net.neurons
                /\ connections' = r.net.connections
                /\ state' = r.net.state
                /\ config' = r.config
                /\ update_count' = r.update_count
                /\ excluded_neurons' = {}
                /\ learning' = <<>>
                /\ neurogenesis' = <<>>
                /\ layers' = <<>>
                /\ prev_weight_changes' = <<>>
                /\ hist' = [Called EXCEPT !.learn_call = -1, !.learn_debounced = FALSE,
                                          !.prev_call = -1, !.prev_debounced = FALSE,
                                          !.created_at = -1, !.generated = {},
                                          !.signal = <<>>, !.constructed_at = -1]
           ELSE /\ UNCHANGED <<netVars, helperVars, bpVars>>
                /\ hist' = Called
        /\ UNCHANGED <<now, file, lone_connection, lone_neuron>>

\* a file is put at the path by something other than save
WriteFile(content) ==
    /\ CanCall
    /\ file' = <<content>>
    /\ last' = Result("write_file", FALSE)
    /\ hist' = Called
    /\ UNCHANGED <<netVars, helperVars, bpVars, now, lone_connection, lone_neuron>>

\* BackpropNetwork.train(training_data, epochs, target_error, callback)
Train(in) ==
    /\ CanCall
    /\ \E orders \in [1..in.epochs -> Shuffles(in.training_data)] :
         \E r \in { TrainRun(Net, layers, prev_weight_changes, in, orders) } :
             /\ state' = r.net.state
             /\ connections' = r.net.connections
             /\ prev_weight_changes' = r.prev
             /\ last' = Result("train", r.raised)
             /\ hist' = [Called EXCEPT !.train = <<[in |-> in, errors |-> r.errors]>>]
    /\ UNCHANGED <<neurons, update_count, excluded_neurons, config, helperVars,
                   layers, now, file, lone_connection, lone_neuron>>

\* a write of the caller's Connection is explored while fewer than MaxWrites
\* were made
CanWrite == hist.writes < MaxWrites
Written == [hist EXCEPT !.writes = @ + 1]

\* Connection(source, target, weight)
ConnNew(weight) ==
    /\ CanWrite
    /\ hist.writes < BranchWrites
    /\ lone_connection' = <<NewConnection(weight, FALSE)>>
    /\ last' = Result("Connection", FALSE)
    /\ hist' = Written
    /\ UNCHANGED <<netVars, helperVars, bpVars, now, file, lone_neuron>>

\* connection.set_weight(weight)
ConnSetWeight(weight) ==
    /\ CanWrite
    /\ lone_connection # <<>>
    /\ lone_connection' = <<SetWeight(lone_connection[1], weight)>>
    /\ last' = Result("set_weight", FALSE)
    /\ hist' = Written
    /\ UNCHANGED <<netVars, helperVars, bpVars, now, file, lone_neuron>>

\* connection.apply_decay(), decay_factor = 0.01
ConnApplyDecay ==
    /\ CanWrite
    /\ hist.writes < BranchWrites
    /\ lone_connection # <<>>
    /\ lone_connection' = <<ApplyDecay(lone_connection[1], WUnit \div 100)>>
    /\ last' = Result("apply_decay", FALSE)
    /\ hist' = Written
    /\ UNCHANGED <<netVars, helperVars, bpVars, now, file, lone_neuron>>

\* Neuron(name)
NeuronNew ==
    /\ hist.writes < MaxRecords
    /\ lone_neuron' = <<NewNeuron(NoPosition, "default")>>
    /\ last' = Result("Neuron", FALSE)
    /\ hist' = Written
    /\ UNCHANGED <<netVars, helperVars, bpVars, now, file, lone_connection>>

\* neuron.record_activity(value, max_history)
NeuronRecordActivity(in) ==
    /\ hist.writes < MaxRecords
    /\ lone_neuron # <<>>
    /\ lone_neuron' = <<RecordActivity(lone_neuron[1], in.value, in.max_history)>>
    /\ last' = Result("record_activity", FALSE)
    /\ hist' = [Written EXCEPT !.signal = in]
    /\ UNCHANGED <<netVars, helperVars, bpVars, now, file, lone_connection>>

\* the clock moves between calls; only the helpers read it, so its moves are
\* followed once there is one and while a call can still follow
Tick(d) ==
    /\ hist.ticks < MaxTicks
    /\ CanCall
    /\ learning # <<>> \/ neurogenesis # <<>>
    /\ now' = now + d
    /\ hist' = [hist EXCEPT !.ticks = @ + 1]
    /\ UNCHANGED <<netVars, helperVars, bpVars, file, last, lone_connection, lone_neuron>>

Next ==
    \/ \E in \in AddInputs : AddNeuron(in)
    \/ \E in \in ConnectInputs : Connect(in)
    \/ \E name \in ExcludeInputs : Exclude(name)
    \/ \E name \in RemoveInputs : RemoveNeuron(name)
    \/ \E new_state \in UpdateInputs : UpdateState(new_state)
    \/ PropagateActivation
    \/ ApplyWeightDecay
    \/ PerformLearning
    \/ \E in \in SignalInputs : CheckNeurogenesis(in)
    \/ \E lys \in LayerInputs : SetLayers(lys)
    \/ \E inputs \in ForwardInputs : DoForwardPass(inputs)
    \/ \E targets \in TargetInputs : DoBackwardPass(targets)
    \/ Save
    \/ Load
    \/ \E d \in TickSet : Tick(d)

Spec == Init /\ [][Next]_vars

\* the calls that build, save and load a network, over files that save wrote or
\* that were put at the path otherwise
NextFiles ==
    \/ \E in \in AddInputs : AddNeuron(in)
    \/ \E in \in ConnectInputs : Connect(in)
    \/ Save
    \/ Load
    \/ \E content \in FileInputs : WriteFile(content)

SpecFiles == Init /\ [][NextFiles]_vars

\* the life of one Connection: constructed, then written by set_weight and
\* apply_decay
NextConnection ==
    \/ \E weight \in WeightInputs(hist.writes) : ConnNew(weight)
    \/ \E weight \in WeightInputs(hist.writes) : ConnSetWeight(weight)
    \/ ConnApplyDecay

SpecConnection == Init /\ [][NextConnection]_vars

\* the calls that build a layered network, train it and decay its weights
NextTrain ==
    \/ \E in \in AddInputs : AddNeuron(in)
    \/ \E in \in ConnectInputs : Connect(in)
    \/ \E lys \in LayerInputs : SetLayers(lys)
    \/ \E in \in TrainInputs : Train(in)
    \/ ApplyWeightDecay

SpecTrain == Init /\ [][NextTrain]_vars

\* the life of one Neuron: constructed, then its activity recorded
NextNeuron ==
    \/ NeuronNew
    \/ \E in \in RecordInputs : NeuronRecordActivity(in)

SpecNeuron == Init /\ [][NextNeuron]_vars

\* the calls that build a layered network and run single passes over it
NextBackprop ==
    \/ \E in \in AddInputs : AddNeuron(in)
    \/ \E in \in BackpropConnects : Connect(in)
    \/ \E lys \in BackpropLayers : SetLayers(lys)
    \/ \E inputs \in ForwardInputs : DoForwardPass(inputs)
    \/ \E targets \in TargetInputs : DoBackwardPass(targets)

SpecBackprop == Init /\ [][NextBackprop]_vars

\* the calls the builder makes on its network: neurons are added, connected,
\* removed and renamed
NextBuilder ==
    \/ \E in \in AddInputs : AddNeuron(in)
    \/ \E in \in ConnectInputs : Connect(in)
    \/ \E name \in RemoveInputs : RemoveNeuron(name)
    \/ \E in \in RenameInputs : RenameNeuron(in)

SpecBuilder == Init /\ [][NextBuilder]_vars

\* the calls around neurogenesis: a neuron with a name of the helper's making
\* is added, neurogenesis is asked for, and the clock moves
NextGenesis ==
    \/ \E in \in { a \in AddInputs : a.name = Novel0 } : AddNeuron(in)
    \/ \E in \in GenesisInputs : CheckNeurogenesis(in)
    \/ \E d \in TickSet : Tick(d)

SpecGenesis == Init /\ [][NextGenesis]_vars

----------------------------------------------------------------------------
(* Properties *)

\* a step that is a call of the named operation: a call counts in hist.calls
\* and records its name in last
IsCall(op) == hist'.calls = hist.calls + 1 /\ last'.op = op

\* C1: every connection stored in the network has a weight in [-1.0, 1.0],
\* whatever operations created or changed it and whatever weight was passed
C1_WeightsClamped ==
    \A p \in DOMAIN connections :
        connections[p].weight >= -WUnit /\ connections[p].weight <= WUnit

\* C1, its case: connect was called with weight 5.0 and the connection it
\* made is stored with weight 1.0
C1_Witness ==
    /\ last.op = "connect" /\ ~last.raised
    /\ <<A, B>> \in DOMAIN connections
    /\ connections[<<A, B>>].weight = WUnit

\* C2: every key of the state mapping names an existing neuron
C2_StateKeysAreNeurons == DOMAIN state \subseteq DOMAIN neurons

\* C3: both endpoints of every connection name an existing neuron
C3_EndpointsAreNeurons ==
    \A p \in DOMAIN connections : p[1] \in DOMAIN neurons /\ p[2] \in DOMAIN neurons

\* C3, its case: check_neurogenesis created a neuron and connected it to the
\* neurons there were, in a network whose state has an entry for a name that
\* is not a neuron
C3_Witness ==
    /\ last.op = "check_neurogenesis" /\ last.flag
    /\ connections # <<>>
    /\ ~(DOMAIN state \subseteq DOMAIN neurons)

RuleValue(value) ==
    IF value.k = "num" THEN value.n
    ELSE IF value.k = "bool" THEN (IF value.n = 1 THEN 100 * VUnit ELSE 0)
    ELSE 75 * VUnit

\* C5: get_neuron_value returns a number unchanged, 100.0 for true, 0.0 for
\* false, 75.0 for any string and 0.0 for a name with no state entry
C5_ValueRule ==
    \A name \in DOMAIN state \cup DOMAIN neurons \cup {Ghost} :
        get_neuron_value(name) =
            IF name \in DOMAIN state THEN RuleValue(state[name]) ELSE 0

\* C6: perform_hebbian_learning never raises
C6_LearningNeverRaises == ~(last.op = "perform_learning" /\ last.raised)

\* C7: check_neurogenesis never raises
C7_NeurogenesisNeverRaises == ~(last.op = "check_neurogenesis" /\ last.raised)

\* C8: load of the snapshot save writes of the network succeeds, at any
\* point of the network's life
C8_SaveThenLoadSucceeds == LoadData(SaveData(Net, config, update_count)).ok

\* what C9 asks of the network r that load returns for the snapshot of the
\* present one; a position is the same when its coordinates are
SameNetwork(r) ==
    /\ r.ok
    /\ DOMAIN r.net.neurons = DOMAIN neurons
    /\ \A name \in DOMAIN neurons :
          /\ r.net.neurons[name].position.xy = neurons[name].position.xy
          /\ r.net.neurons[name].type = neurons[name].type
    /\ DOMAIN r.net.connections = DOMAIN connections
    /\ \A p \in DOMAIN connections : r.net.connections[p].weight = connections[p].weight
    /\ r.net.state = state
    /\ r.config.hebbian = config.hebbian
    /\ r.config.neurogenesis = config.neurogenesis
    /\ r.update_count = update_count

\* C9: for a network whose neuron names contain no underscore, save then
\* load yields the same neuron names, positions and types, the same
\* connections and weights, the same state mapping, the same hebbian and
\* neurogenesis config values and the same update counter
C9_RoundTrip ==
    (\A name \in DOMAIN neurons : ~HasUnderscore(name))
        => SameNetwork(LoadData(SaveData(Net, config, update_count)))

\* C9, its case: a network of two neurons, one with a position and a string
\* state, joined by a one-way connection of weight 1.0, that save wrote and
\* load read back
C9_Witness ==
    /\ last.op = "load" /\ last.flag
    /\ DOMAIN neurons = {A, B}
    /\ DOMAIN connections = {<<A, B>>}
    /\ connections[<<A, B>>].weight = WUnit
    /\ file # <<>> /\ file[1].state = state

\* C10: add_neuron with a name already present and connect with a source or
\* target that is not a neuron raise and leave neurons, state and connections
\* as they were; add_neuron with a new name adds that one neuron and sets
\* state[name] to initial_state
C10_FailuresChangeNothing ==
    [][/\ IsCall("add_neuron") =>
            \A in \in AddInputs :
                AddNeuron(in) =>
                    IF in.name \in DOMAIN neurons
                    THEN last'.raised /\ UNCHANGED <<neurons, state, connections>>
                    ELSE /\ ~last'.raised
                         /\ DOMAIN neurons' = DOMAIN neurons \cup {in.name}
                         /\ \A name \in DOMAIN neurons : neurons'[name] = neurons[name]
                         /\ state'[in.name] = in.initial_state
                         /\ connections' = connections
       /\ IsCall("connect") =>
            \A in \in ConnectInputs :
                (/\ Connect(in)
                 /\ (in.source \notin DOMAIN neurons \/ in.target \notin DOMAIN neurons))
                    => last'.raised /\ UNCHANGED <<neurons, state, connections>>]_vars

\* C10, its case: add_neuron was called with the name of a neuron that has a
\* connection and a state the call would have replaced, and raised
C10_Witness ==
    /\ last.op = "add_neuron" /\ last.raised
    /\ A \in DOMAIN neurons /\ B \in DOMAIN neurons
    /\ <<A, B>> \in DOMAIN connections
    /\ state[A] # Num(80 * VUnit)

\* the blend the propagation rule prescribes for a target, from the values and
\* weights of one state: 0.7 * current + 0.3 * average weighted input
Blend(st, conns, target, srcs) ==
    LET avg_num == SumOver(srcs, [source \in srcs |->
                              GetNeuronValueOf(st, source) * conns[<<source, target>>].weight],
                           0)
        avg_den == Cardinality(srcs) * WUnit
    IN  (7 * GetNeuronValueOf(st, target) * avg_den + 3 * avg_num) \div (10 * avg_den)

Incoming(target) == { source \in DOMAIN neurons : <<source, target>> \in DOMAIN connections }

\* the network of the worked example: A -> B with weight 0.5, A = 80, B = 90
ExampleNet ==
    [neurons |-> (A :> NewNeuron(NoPosition, "default")) @@ (B :> NewNeuron(NoPosition, "default")),
     connections |-> (<<A, B>> :> NewConnection(WUnit \div 2, FALSE)),
     state |-> (A :> Num(80 * VUnit)) @@ (B :> Num(90 * VUnit))]

\* C11: one propagation step gives every neuron with incoming connections the
\* value clamp(0.7 * current + 0.3 * average of source value * weight, 0, 100),
\* all read from the state before the step, so the order of the neurons does
\* not matter; with A -> B of weight 0.5, A = 80 and B = 90 the step leaves
\* B = 75 and A = 80
C11_SynchronousBlend ==
    [][ IsCall("propagate_activation") =>
            /\ \A target \in DOMAIN neurons :
                  Incoming(target) # {} =>
                      state'[target] =
                          Num(Max(0, Min(100 * VUnit,
                                  Blend(state, connections, target, Incoming(target)))))
            /\ PropagateStep(ExampleNet) = (A :> Num(80 * VUnit)) @@ (B :> Num(75 * VUnit))
      ]_vars

\* a step over A <-> B of weight -0.5 with A = 80 and B = "on": each new value
\* is computed from the other's old one
C11_Witness ==
    /\ last.op = "propagate_activation"
    /\ {<<A, B>>, <<B, A>>} \subseteq DOMAIN connections
    /\ connections[<<A, B>>].weight = -(WUnit \div 2)
    /\ connections[<<B, A>>].weight = -(WUnit \div 2)
    /\ state[A] = Num(447)
    /\ state[B] = Num(405)

\* C12: after a propagation step every neuron that has an incoming connection
\* holds a number in [0, 100], whatever the values before the step, and every
\* other entry of the state is the one it was
C12_BoundedAndFramed ==
    [][ IsCall("propagate_activation") =>
            /\ DOMAIN state \subseteq DOMAIN state'
            /\ \A name \in DOMAIN state' :
                  IF name \in DOMAIN neurons /\ Incoming(name) # {}
                  THEN /\ IsIntOrFloat(state'[name])
                       /\ state'[name].n >= 0
                       /\ state'[name].n <= 100 * VUnit
                  ELSE name \in DOMAIN state /\ state'[name] = state[name]
      ]_vars

\* a step where the blend of A is negative (A = True, B = "on", B -> A of
\* weight -0.5) and is stored as 0
C12_Witness ==
    /\ last.op = "propagate_activation"
    /\ <<B, A>> \in DOMAIN connections
    /\ connections[<<B, A>>].weight < 0
    /\ state[A] = Num(0)
    /\ B \in DOMAIN state /\ state[B] # Num(0)

C14_FirstNoveltyCreatesNovel0 ==
    [][ ( /\ IsCall("check_neurogenesis")
          /\ neurogenesis # <<>>
          /\ neurogenesis[1].novelty_counter = 0
          /\ neurogenesis[1].stress_counter = 0
          /\ neurogenesis[1].reward_counter = 0
          /\ neurogenesis[1].new_neurons = <<>>
          /\ now - neurogenesis[1].last_neuron_time > config.neurogenesis.cooldown
          /\ config.neurogenesis.novelty_threshold = 3 * CUnit
          /\ config.neurogenesis.decay_rate = 95 ) =>
            /\ Novel0 \notin DOMAIN neurons
            /\ DOMAIN neurons' = DOMAIN neurons \cup {Novel0}
            /\ state'[Novel0] = Num(InitialActivation * VUnit)
            /\ \A p \in DOMAIN neurons \ excluded_neurons :
                  {<<Novel0, p>>, <<p, Novel0>>} \subseteq DOMAIN connections'
      ]_vars

\* C15: a neuron named in Network.excluded_neurons is never active for Hebbian
\* learning: it is in no pair perform_learning returns, and a learning call
\* neither creates nor reweights a connection that touches it
C15_ExcludedNeverLearn ==
    [][ IsCall("perform_learning") =>
            /\ \A pair \in last'.pairs : pair \cap excluded_neurons = {}
            /\ \A p \in DOMAIN connections' :
                  (p[1] \in excluded_neurons \/ p[2] \in excluded_neurons) =>
                      p \in DOMAIN connections /\ connections'[p] = connections[p]
      ]_vars

\* the neurons whose normalized value is strictly above the active threshold
AboveThreshold == { name \in DOMAIN state :
                      GetNeuronValueOf(state, name) > config.hebbian.active_threshold }

\* the connections a step created or reweighted
Reweighted == { p \in DOMAIN connections' :
                  p \notin DOMAIN connections \/ connections'[p].weight # connections[p].weight }

\* C16: a learning call returns at most 2 pairs and reinforces at most 2 pairs,
\* however many neurons are active; every returned pair is two distinct
\* neurons whose values are both strictly above the active threshold; with
\* fewer than 2 active neurons the call returns no pair and changes no weight
C16_AtMostTwoPairs ==
    [][ IsCall("perform_learning") =>
            /\ Cardinality(last'.pairs) <= 2
            /\ Reweighted \subseteq
                  UNION { { <<n1, n2>> : n1, n2 \in pair } : pair \in last'.pairs }
            /\ \A pair \in last'.pairs :
                  /\ Cardinality(pair) = 2
                  /\ pair \subseteq AboveThreshold
            /\ Cardinality(AboveThreshold) < 2 =>
                  /\ last'.pairs = {}
                  /\ ~last'.raised
                  /\ connections' = connections
      ]_vars

\* a call with three active neurons, hence three candidate pairs, that
\* returned two of them
C16_Witness ==
    /\ last.op = "perform_learning"
    /\ Cardinality(last.pairs) = 2
    /\ Cardinality({ name \in DOMAIN state :
                       GetNeuronValueOf(state, name) > config.hebbian.active_threshold }) = 3

\* learning_rate * (v1 / 100) * (v2 / 100) for the values of two neurons
Increment(learning_rate, n1, n2) ==
    (((learning_rate * GetNeuronValueOf(state, n1)) \div (100 * VUnit))
        * GetNeuronValueOf(state, n2)) \div (100 * VUnit)

\* the weight of a connection before the step, 0 for one that did not exist
WeightBefore(p) == IF p \in DOMAIN connections THEN connections[p].weight ELSE 0

\* C17: for every pair (n1, n2) a learning call reinforced, both n1 -> n2 and
\* n2 -> n1 exist afterwards (made with weight 0 when absent, otherwise kept)
\* and each weight is its previous value plus the same increment
\* learning_rate * (v1 / 100) * (v2 / 100), clamped to [-1, 1]; no other
\* connection changes
C17_HebbianIncrement ==
    [][ IsCall("perform_learning") =>
            /\ DOMAIN connections \subseteq DOMAIN connections'
            /\ \A p \in DOMAIN connections' :
                  (\A pair \in last'.pairs : {p[1], p[2]} # pair) =>
                      p \in DOMAIN connections /\ connections'[p] = connections[p]
            /\ \A pair \in last'.pairs :
                  \E n1, n2 \in pair :
                      /\ n1 # n2
                      /\ {<<n1, n2>>, <<n2, n1>>} \subseteq DOMAIN connections'
                      /\ \A p \in {<<n1, n2>>, <<n2, n1>>} :
                            connections'[p].weight =
                                Max(-WUnit, Min(WUnit,
                                    WeightBefore(p)
                                    + Increment(learning[1].learning_rate, n1, n2)))
      ]_vars

\* a call that reinforced (A, B) where both directions existed with weight
\* -0.5: each is kept and raised by 0.1 * 0.8 * 0.75 = 0.06
C17_Witness ==
    /\ last.op = "perform_learning"
    /\ {A, B} \in last.pairs
    /\ connections[<<A, B>>].weight = -(WUnit \div 2) + 600
    /\ connections[<<B, A>>].weight = -(WUnit \div 2) + 600

BaseNames == { BaseName(neuron_type) : neuron_type \in {"novelty", "stress", "reward"} }

\* C18: the suffix n of a name neurogenesis generates is the number of neurons
\* the helper has created so far, which grows with every creation; whatever
\* check_neurogenesis calls and removals of created neurons came before, a
\* generated name was never generated before by that helper
C18_NamesNeverReused ==
    [][ IsCall("check_neurogenesis") =>
            \A name \in DOMAIN neurons' \ DOMAIN neurons :
                /\ name \notin hist.generated
                /\ \E base \in BaseNames :
                      name = <<base, Sep>> \o NumStr(Cardinality(hist.generated))
                /\ Len(neurogenesis'[1].new_neurons) = Cardinality(hist.generated) + 1
      ]_vars

\* novel_0 was created and removed, and a later call created novel_1
C18_Witness ==
    /\ last.op = "check_neurogenesis" /\ last.flag
    /\ hist.generated = {Novel0, <<"novel", Sep>> \o NumStr(1)}
    /\ Novel0 \notin DOMAIN neurons
    /\ (<<"novel", Sep>> \o NumStr(1)) \in DOMAIN neurons

\* the file cannot be rebuilt: it is absent, it is not JSON, or one of its
\* connection keys does not split into two names of neurons of the file
Unloadable ==
    \/ file = <<>>
    \/ JsonLoadRaises(file[1])
    \/ \E key \in DOMAIN file[1].connections :
          \/ Len(Split(key)) # 2
          \/ \E i \in 1..Len(Split(key)) : Split(key)[i] \notin DOMAIN file[1].neurons

\* C19: load is all or nothing: when the file is missing or malformed, or a
\* connection's endpoint is not a neuron of the file, or a connection key does
\* not split into exactly two names, load returns no network, never a partly
\* rebuilt one
C19_LoadAllOrNothing ==
    [][ (IsCall("load") /\ Unloadable) =>
            /\ ~last'.flag
            /\ UNCHANGED <<netVars, helperVars, bpVars>>
      ]_vars

\* a load of a file whose first connection can be rebuilt and whose second
\* has an endpoint that is no neuron of the file
C19_Witness ==
    /\ last.op = "load" /\ ~last.flag
    /\ file # <<>>
    /\ ~JsonLoadRaises(file[1])
    /\ DOMAIN file[1].connections = {JoinKey(A, B), JoinKey(B, Ghost)}
    /\ DOMAIN file[1].neurons = {A, B}

\* C20: forward_pass raises when no layers are set; backward_pass raises when
\* no layers are set or when the number of targets is not the number of
\* neurons of the output layer; a call that fails so changes neither the
\* state, nor a weight, nor the momentum cache
C20_BackpropRejects ==
    [][ /\ (IsCall("forward_pass") /\ layers = <<>>) =>
              /\ last'.raised
              /\ UNCHANGED <<netVars, helperVars, bpVars>>
        /\ IsCall("backward_pass") =>
              \A targets \in TargetInputs :
                  ( /\ layers = <<>> \/ Len(targets) # Len(layers[Len(layers)])
                    /\ DoBackwardPass(targets) ) =>
                        /\ last'.raised
                        /\ UNCHANGED <<netVars, helperVars, bpVars>>
      ]_vars

\* a backward_pass that raised although layers are set and every layer neuron
\* holds a number: two targets were given for an output layer of one neuron
C20_Witness ==
    /\ last.op = "backward_pass" /\ last.raised
    /\ layers # <<>>
    /\ \A name \in AllLayerNeurons(layers) : ~DivRaises(state, name)

\* an epoch after which train stops: its callback answered false or its
\* average error is at most target_error
StopsAfter(t, e) ==
    \/ t.in.callback # <<>> /\ ~t.in.callback[e]
    \/ t.errors[e] <= t.in.target_error

C22_UpdateStateFrame ==
    [][ /\ IsCall("update_state") =>
              /\ DOMAIN state' = DOMAIN state
              /\ DOMAIN neurons' = DOMAIN neurons
              /\ connections' = connections
              /\ update_count' = update_count + 1
              /\ \A new_state \in UpdateInputs :
                    UpdateState(new_state) =>
                        \A k \in DOMAIN state :
                            state'[k] = IF k \in DOMAIN new_state THEN new_state[k]
                                        ELSE state[k]
              /\ ApplyUpdates(neurons, state, <<>>, {}) = [neurons |-> neurons, state |-> state]
        /\ ~(IsCall("load") /\ last'.flag) => update_count' >= update_count
      ]_vars

\* an update naming A, which is in the state, and Ghost, which is not: A has
\* the new value and there is no entry for Ghost
C22_Witness ==
    /\ last.op = "update_state"
    /\ A \in DOMAIN state /\ state[A] = Bool(TRUE)
    /\ B \in DOMAIN state /\ state[B] = Str("on")
    /\ Ghost \notin DOMAIN state
    /\ connections # <<>>
    /\ update_count = 1

\* the connections that lead from a neuron of a layer to one of the next layer
LayerEdges ==
    { p \in DOMAIN connections :
        \E i \in 1..(Len(layers) - 1) :
            /\ \E j \in 1..Len(layers[i]) : layers[i][j] = p[1]
            /\ \E j \in 1..Len(layers[i + 1]) : layers[i + 1][j] = p[2] }

\* C23: connect(s, t, w, bidirectional = true) makes or overwrites (s, t) with
\* the clamped weight and makes (t, s) with the same weight only when it does
\* not exist; an existing (t, s) keeps its weight. Afterwards the two are
\* independent: a connect that overwrites one, a decay or a training run
\* changes each weight from its own value only
C23_BidirectionalIndependent ==
    [][ /\ IsCall("connect") =>
              \A in \in ConnectInputs :
                  (Connect(in) /\ ~last'.raised) =>
                      LET st == <<in.source, in.target>>
                          ts == <<in.target, in.source>>
                          w == Max(-WUnit, Min(WUnit, in.weight))
                      IN  /\ connections'[st].weight = w
                          /\ (in.bidirectional /\ ts \notin DOMAIN connections) =>
                                ts \in DOMAIN connections' /\ connections'[ts].weight = w
                          /\ (~in.bidirectional /\ ts \notin DOMAIN connections) =>
                                ts \notin DOMAIN connections'
                          /\ \A p \in DOMAIN connections \ {st} :
                                connections'[p] = connections[p]
        /\ IsCall("apply_weight_decay") =>
              \A p \in DOMAIN connections :
                  connections'[p].weight =
                      (connections[p].weight * (WUnit - config.hebbian.weight_decay)) \div WUnit
        /\ IsCall("train") =>
              \A p \in DOMAIN connections \ LayerEdges : connections'[p] = connections[p]
      ]_vars

\* after connect(B, A, -0.5, bidirectional) and training over the layers
\* A, B: the weight of A -> B has moved and the weight of B -> A has not
C23_Witness ==
    /\ last.op = "train" /\ ~last.raised
    /\ {<<A, B>>, <<B, A>>} \subseteq DOMAIN connections
    /\ connections[<<B, A>>].weight = -(WUnit \div 2)
    /\ connections[<<B, A>>].bidirectional /\ connections[<<A, B>>].bidirectional
    /\ connections[<<A, B>>].weight # -(WUnit \div 2)

\* C24: every set_weight, those of the constructor and of apply_decay
\* included, appends one entry, the clamped weight just stored, so the last
\* entry of the history is the current weight; the history never has more than
\* 100 entries, and when it is full the oldest entry is dropped and the others
\* keep their order
C24_WeightHistory ==
    [][ hist'.writes = hist.writes + 1 =>
            LET c == lone_connection'[1]
                before == IF last'.op = "Connection" THEN <<>> ELSE lone_connection[1].weight_history
            IN  /\ c.weight >= -WUnit /\ c.weight <= WUnit
                /\ Len(c.weight_history) <= HistoryCap
                /\ c.weight_history[Len(c.weight_history)] = c.weight
                /\ c.weight_history =
                      IF Len(before) < HistoryCap THEN Append(before, c.weight)
                      ELSE Append(Tail(before), c.weight)
      ]_vars

\* a Connection written 102 times: its history holds the last 100 weights
C24_Witness ==
    /\ lone_connection # <<>>
    /\ hist.writes = MaxWrites
    /\ Len(lone_connection[1].weight_history) = HistoryCap
    /\ lone_connection[1].weight_history[HistoryCap] = lone_connection[1].weight
    /\ lone_connection[1].weight_history[1] # lone_connection[1].weight_history[2]

\* the counter of a trigger type in a helper
CounterOf(ng, trigger_type) ==
    IF trigger_type = "novelty" THEN ng.novelty_counter
    ELSE IF trigger_type = "stress" THEN ng.stress_counter
    ELSE ng.reward_counter

\* the threshold of a trigger type
ThresholdOf(trigger_type) ==
    IF trigger_type = "novelty" THEN config.neurogenesis.novelty_threshold
    ELSE IF trigger_type = "stress" THEN config.neurogenesis.stress_threshold
    ELSE config.neurogenesis.reward_threshold

\* the signal of a trigger type in the argument of check_neurogenesis
SignalOf(in, trigger_type) ==
    IF trigger_type = "novelty" THEN in.novelty_exposure
    ELSE IF trigger_type = "stress" THEN in.sustained_stress
    ELSE in.recent_rewards

\* the counter of a trigger type after the decay and the signal of this call
Raised(in, trigger_type) ==
    (CounterOf(neurogenesis[1], trigger_type) * config.neurogenesis.decay_rate) \div 100
        + SignalOf(in, trigger_type)

\* the trigger types whose counter is then above its threshold
Firing(in) ==
    { t \in {"novelty", "stress", "reward"} : Raised(in, t) > ThresholdOf(t) }

\* what a call outside the cooldown does with the firing triggers
FiresExactly(in) ==
    /\ ~last'.raised
    /\ \A t \in {"novelty", "stress", "reward"} :
          CounterOf(neurogenesis'[1], t) = IF t \in Firing(in) THEN 0 ELSE Raised(in, t)
    /\ Cardinality(DOMAIN neurons') = Cardinality(DOMAIN neurons) + Cardinality(Firing(in))
    /\ last'.flag = (DOMAIN neurons' # DOMAIN neurons)

\* C25: in a check_neurogenesis call outside the cooldown exactly the trigger
\* types whose counter, after decay and addition, is above its threshold fire:
\* their counters are reset to 0, the others keep the decayed-plus-added
\* value, the network grows by one neuron per firing trigger, and the call
\* returns true iff a neuron was created
C25_TriggersFire ==
    [][ ( /\ IsCall("check_neurogenesis")
          /\ neurogenesis # <<>>
          /\ now - neurogenesis[1].last_neuron_time > config.neurogenesis.cooldown )
        => FiresExactly(hist'.signal)
      ]_vars

\* base_rate * neurogenesis_learning_boost
BoostedRate ==
    (config.hebbian.base_learning_rate * config.combined.neurogenesis_learning_boost) \div 10

\* C26: the Hebbian learning rate is set, not multiplied: it is always the base
\* rate or the base rate times the boost, and it is the base rate times the
\* boost after every check_neurogenesis call that created a neuron, however
\* many such calls came before
C26_LearningRateSet ==
    learning # <<>> =>
        /\ learning[1].learning_rate \in {config.hebbian.base_learning_rate, BoostedRate}
        /\ (last.op = "check_neurogenesis" /\ last.flag)
               => learning[1].learning_rate = BoostedRate

\* a second creating call has boosted the rate again
C26_Witness ==
    /\ last.op = "check_neurogenesis" /\ last.flag
    /\ Len(neurogenesis[1].new_neurons) >= 2
    /\ hist.created_at > 301
    /\ learning[1].learning_rate = BoostedRate
    /\ BoostedRate # config.hebbian.base_learning_rate

\* C27: after every record_activity(value, max_history) call, whatever the
\* max_history arguments of the calls before, the activity history holds at
\* most max_history entries, its last entry is the value just recorded, and
\* what was dropped was dropped from the front
C27_HistoryWithinMax ==
    [][ last'.op = "record_activity" /\ hist'.writes = hist.writes + 1 =>
            LET before == lone_neuron[1].activity_history
                after == lone_neuron'[1].activity_history
                in == hist'.signal
            IN  /\ Len(after) <= in.max_history
                /\ after # <<>> /\ after[Len(after)] = in.value
                /\ \E k \in 0..Len(before) :
                      after = Append(SubSeq(before, k + 1, Len(before)), in.value)
      ]_vars

C29_BackwardPassFrame ==
    [][ IsCall("backward_pass") =>
            /\ DOMAIN connections' = DOMAIN connections
            /\ \A p \in DOMAIN connections \ LayerEdges : connections'[p] = connections[p]
            /\ state' = state /\ neurons' = neurons /\ layers' = layers
            /\ DOMAIN prev_weight_changes \subseteq DOMAIN prev_weight_changes'
            /\ \A p \in DOMAIN prev_weight_changes' :
                  \/ /\ p \in LayerEdges
                     /\ Len(connections'[p].weight_history)
                          = Len(connections[p].weight_history) + 1
                  \/ /\ p \in DOMAIN prev_weight_changes
                     /\ prev_weight_changes'[p] = prev_weight_changes[p]
            /\ last'.raised => connections' = connections
                               /\ prev_weight_changes' = prev_weight_changes
      ]_vars

\* a backward pass has changed the weight of a forward edge, put it in the
\* cache and left the reverse edge at the weight connect gave it
C29_Witness ==
    /\ last.op = "backward_pass" /\ ~last.raised
    /\ \E p \in LayerEdges :
          /\ <<p[2], p[1]>> \in DOMAIN connections \ LayerEdges
          /\ DOMAIN prev_weight_changes = {p}
          /\ prev_weight_changes[p] # 0
          /\ Len(connections[p].weight_history) = 2
          /\ connections[p].weight # connections[p].weight_history[1]
          /\ Len(connections[<<p[2], p[1]>>].weight_history) = 1

\* the rename went through: the old name is gone from neurons, state and
\* connections, the new name has the state value and, under its name, every
\* connection of the old name with its weight; the rest is as it was
RenameSucceeded(old_name, new_name) ==
    /\ old_name \notin DOMAIN neurons' /\ old_name \notin DOMAIN state'
    /\ Touching(connections', old_name) = {}
    /\ new_name \in DOMAIN neurons' /\ new_name \in DOMAIN state'
    /\ state'[new_name] = state[old_name]
    /\ DOMAIN connections' = { Renamed(p, old_name, new_name) : p \in DOMAIN connections }
    /\ \A p \in DOMAIN connections :
          connections'[Renamed(p, old_name, new_name)].weight = connections[p].weight

\* C30: renaming a neuron through the builder (update_neuron_property with a
\* name that is not in the network) is atomic: it succeeds entirely or it
\* leaves neurons, state and connections as they were; no connection is lost
\* and no state entry is left without a neuron
C30_RenameAtomic ==
    [][ ( /\ IsCall("update_neuron_property")
          /\ hist'.signal.new_name \notin DOMAIN neurons )
        => /\ \/ RenameSucceeded(hist'.signal.selected, hist'.signal.new_name)
              \/ neurons' = neurons /\ state' = state /\ connections' = connections
           /\ Cardinality(DOMAIN connections') = Cardinality(DOMAIN connections)
           /\ DOMAIN state' \subseteq DOMAIN neurons'
      ]_vars

====
